---- MODULE Spec2Model ----
(***************************************************************************)
(* CV-Query-Engine: the query pipeline of backend/rag/pipeline.py and the  *)
(* components it sequences (query analyzer, intent extraction, planner,    *)
(* retriever, aggregator, summarizer, synthesizer, memory manager).        *)
(*                                                                         *)
(* Text is a sequence of word tokens; a token " " is whitespace.  A fixed  *)
(* message of the code is the one-token text <<message>>.  An optional     *)
(* value is a sequence of length at most one: <<>> is None, <<v>> is v.    *)
(***************************************************************************)
EXTENDS Integers, Sequences, FiniteSets, TLC

VARIABLES
    store,          \* the rag_memory collection: sequence of entries, oldest first
    pc,             \* position of the current run in run_cv_query_pipeline
    inp,            \* arguments of the current run
    combined_query, \* pipeline.py:85
    analysis,       \* QueryResponse of step 2
    processed_query,\* pipeline.py:106
    intent_reply,   \* the LLM's outcome on the intent prompt of step 3
    intent_result,  \* IntentResult of step 3
    plan,           \* QueryPlan of step 4
    results,        \* match list of step 5
    context,        \* aggregator output of step 6
    answer,         \* summarizer output of step 7
    candidates,     \* synthesizer output of step 8
    response,       \* Option: the PipelineResponse returned to the caller
    calls,          \* stage invocations of the current run, in order
    llm_raised,     \* LLM call sites that raised in the current run
    escaped,        \* LLM call sites whose exception left the calling component
    boundary_exc,   \* Option: detail of the exception caught at pipeline.py:237
    save_outcome,   \* what step 9 did in the current run
    n_returned,     \* number of responses the current run has returned
    memory_results, \* what the aggregator's _fetch_memory returned in step 6
    store_at_start  \* the store when the current run began

vars == <<store, pc, inp, combined_query, analysis, processed_query, intent_reply,
          intent_result,
          plan, results, context, answer, candidates, response, calls, llm_raised, escaped,
          boundary_exc, save_outcome, n_returned, memory_results, store_at_start>>

----------------------------------------------------------------------------
(* Bounds of the model *)

\* capacity of the memory collection; an insert into a full collection fails
MaxStore == 1
\* the largest top_k a tool is called with on its own
MaxTopK == 2
\* the largest batch_size a call of synthesizer_tool is given
MaxBatchSize == 2
\* the largest max_chunks and max_workers format_chunks is given
MaxChunks == 3
MaxWorkers == 2
\* the number of calls a thread makes on the session store
MaxCalls == 2

(* Program constants *)

\* pipeline.py:36, top_k: int = 5
DefaultTopK == 5
\* synthesizer.py:166, batch_size: int = 10
DefaultBatchSize == 10
\* pipeline.py:37, memory_context_limit: int = 3
MemoryContextLimit == 3
\* pipeline.py:116, confidence < 0.3, in hundredths
LowConfidence == 30
\* context_aggregator.py:25, datetime.now().year at the time of the calls
CurrentYear == 2024

----------------------------------------------------------------------------
(* Optional values and text *)

None == <<>>
Some(v) == <<v>>
IsSome(o) == Len(o) = 1
Val(o) == o[1]

Msg(s) == <<s>>

\* str.lower() on a token
Lower(t) ==
    CASE t = "Hello"  -> "hello"
      [] t = "Who"    -> "who"
      [] t = "Python" -> "python"
      [] t = "Q:"     -> "q:"
      [] t = "A:"     -> "a:"
      [] t = "New"    -> "new"
      [] t = "Query:" -> "query:"
      [] t = "Present" -> "present"
      [] t = "Senior" -> "senior"
      [] t = "Contact" -> "contact"
      [] OTHER        -> t

RECURSIVE LowerText(_)
LowerText(q) == IF q = <<>> THEN <<>> ELSE <<Lower(Head(q))>> \o LowerText(Tail(q))

IsSpace(t) == t \in {" ", "\n"}

RECURSIVE LStrip(_)
LStrip(q) == IF q # <<>> /\ IsSpace(Head(q)) THEN LStrip(Tail(q)) ELSE q

RECURSIVE RStrip(_)
RStrip(q) ==
    IF q # <<>> /\ IsSpace(q[Len(q)]) THEN RStrip(SubSeq(q, 1, Len(q) - 1)) ELSE q

\* str.strip()
Strip(q) == RStrip(LStrip(q))

\* a in b, for a phrase a of whole words
Contains(q, phrase) ==
    \E i \in 1..(Len(q) - Len(phrase) + 1) :
        \A k \in 1..Len(phrase) : q[i + k - 1] = phrase[k]

\* str.startswith(phrase); the last word of the phrase may be a proper prefix
\* of the query's word ("hi" of "hiring")
WordPrefix(p, t) ==
    \/ p = t
    \/ p = "hi" /\ t = "hiring"

StartsWith(q, phrase) ==
    /\ Len(q) >= Len(phrase)
    /\ \A k \in 1..(Len(phrase) - 1) : q[k] = phrase[k]
    /\ WordPrefix(phrase[Len(phrase)], q[Len(phrase)])

----------------------------------------------------------------------------
(* QueryAnalyzer, tools/query_analyzer.py *)

MILD == 1
MODERATE == 2
SEVERE == 3

greetings ==
    { <<"hello">>, <<"hi">>, <<"hey">>, <<"greetings">>,
      <<"good", " ", "morning">>, <<"good", " ", "afternoon">>,
      <<"good", " ", "evening">> }

small_talk_phrases ==
    { <<"how", " ", "are", " ", "you">>, <<"what's", " ", "up">>,
      <<"who", " ", "are", " ", "you">>, <<"what", " ", "can", " ", "you", " ", "do">>,
      <<"tell", " ", "me", " ", "about", " ", "yourself">> }

\* re.search(r"\b(w1|w2|...)\b", query, re.IGNORECASE), q the lower-cased query
HasWord(q, words) == \E i \in 1..Len(q) : q[i] \in words

\* re.search(r"\b(a\b.*\b(b1|b2))\b", query, re.IGNORECASE); "." matches no
\* newline
HasWordThen(q, a, bs) ==
    \E i \in 1..Len(q) :
        /\ q[i] = a
        /\ \E j \in (i + 1)..Len(q) :
                /\ q[j] \in bs
                /\ \A k \in (i + 1)..(j - 1) : q[k] # "\n"

\* re.search(r"\b(s1|..)\s+(v1|..)\s+(o1|..)\b", query, re.IGNORECASE)
HasTriple(q, ss, vs, os) ==
    \E i \in 1..(Len(q) - 4) :
        /\ q[i] \in ss /\ IsSpace(q[i + 1])
        /\ q[i + 2] \in vs /\ IsSpace(q[i + 3])
        /\ q[i + 4] \in os

\* the rules of toxic_patterns that match the query, as <<level, category>>
ToxicMatches(query) ==
    LET q == LowerText(query)
    IN  {m \in
            { <<MILD, "profanity", HasWord(q, {"dumb", "stupid", "idiot", "fool", "shit", "damn"})>>,
              <<MODERATE, "insult", HasWord(q, {"retard", "moron", "asshole", "bitch", "bastard"})>>,
              <<MODERATE, "hate_speech", HasWordThen(q, "hate", {"you", "people"})>>,
              <<SEVERE, "threat", HasWordThen(q, "kill", {"yourself", "others"})>>,
              <<SEVERE, "violence", HasWord(q, {"rape", "murder", "suicide"})>>,
              <<SEVERE, "slur", HasWord(q, {"nigger", "fag", "chink", "spic"})>>,
              <<SEVERE, "discrimination",
                HasTriple(q, {"women", "men", "blacks", "whites"}, {"are", "should"},
                          {"stupid", "die"})>> } : m[3]}

MaxLevel(ms) ==
    IF ms = {} THEN 0
    ELSE CHOOSE l \in {m[1] : m \in ms} : \A m \in ms : m[1] <= l

_get_rejection_message(level) ==
    IF level = MILD THEN "Please maintain professional language"
    ELSE IF level = MODERATE THEN "Inappropriate language detected"
    ELSE "Query violates content policy"

\* str.strip("?!.,") on the lower-cased query
StripPunct(q) ==
    LET isP(t) == t \in {"?", "!", ".", ","}
        RECURSIVE L(_)
        L(s) == IF s # <<>> /\ isP(Head(s)) THEN L(Tail(s)) ELSE s
        RECURSIVE R(_)
        R(s) == IF s # <<>> /\ isP(s[Len(s)]) THEN R(SubSeq(s, 1, Len(s) - 1)) ELSE s
    IN  R(L(q))

_is_greeting(q) ==
    LET clean_query == StripPunct(LowerText(q))
    IN  \/ clean_query \in greetings
        \/ \E g \in greetings : StartsWith(clean_query, g)

_is_small_talk(q) ==
    LET query_lower == LowerText(q)
    IN  \E phrase \in small_talk_phrases : Contains(query_lower, phrase)

\* QueryResponse with its defaults
QueryResponse ==
    [ should_process |-> FALSE, immediate_response |-> None, modified_query |-> None,
      rejection_reason |-> None, is_toxic |-> FALSE, toxicity_level |-> None,
      toxicity_categories |-> {}, is_greeting |-> FALSE ]

\* an outcome of llm.invoke: it raises, or returns a text
LLMRaise == [raised |-> TRUE, text |-> <<>>]
LLMReturn(t) == [raised |-> FALSE, text |-> t]

\* _generate_response: the reply, stripped, or the static greeting
_generate_response(r) ==
    IF r.raised THEN Msg("Hello! I'm your CV search assistant. How can I help?")
    ELSE Strip(r.text)

\* _rewrite_query handing the query back when the LLM call fails
_rewrite_queryKeepsQuery(r) == IF r.raised THEN Some(<<>>) ELSE Some(Strip(r.text))

\* _rewrite_query: the rewritten query, stripped, or None
_rewrite_query(r) == IF r.raised THEN None ELSE Some(Strip(r.text))

\* analyze without the empty-query test of query_analyzer.py:136-140
analyzeNoEmptyCheck(query, r) ==
    IF _is_greeting(query) \/ _is_small_talk(query) THEN
        [QueryResponse EXCEPT
            !.immediate_response = Some(_generate_response(r)),
            !.should_process = FALSE,
            !.is_greeting = TRUE]
    ELSE IF ToxicMatches(query) # {} THEN
        LET level == MaxLevel(ToxicMatches(query))
            safe_query == _rewrite_query(r)
        IN  [QueryResponse EXCEPT
                !.is_toxic = TRUE,
                !.toxicity_level = Some(level),
                !.toxicity_categories = {m[2] : m \in ToxicMatches(query)},
                !.rejection_reason = Some(Msg(_get_rejection_message(level))),
                !.modified_query = safe_query,
                !.should_process = IsSome(safe_query)]
    ELSE
        [QueryResponse EXCEPT !.should_process = TRUE, !.modified_query = Some(query)]

\* analyze with the toxic branch leaving is_toxic at its default
analyzeToxicNoFlag(query, r) ==
    IF Strip(query) = <<>> THEN
        [QueryResponse EXCEPT
            !.immediate_response = Some(Msg("Please provide a search query about candidates.")),
            !.should_process = FALSE]
    ELSE IF _is_greeting(query) \/ _is_small_talk(query) THEN
        [QueryResponse EXCEPT
            !.immediate_response = Some(_generate_response(r)),
            !.should_process = FALSE,
            !.is_greeting = TRUE]
    ELSE IF ToxicMatches(query) # {} THEN
        LET level == MaxLevel(ToxicMatches(query))
            safe_query == _rewrite_query(r)
        IN  [QueryResponse EXCEPT
                !.toxicity_level = Some(level),
                !.toxicity_categories = {m[2] : m \in ToxicMatches(query)},
                !.rejection_reason = Some(Msg(_get_rejection_message(level))),
                !.modified_query = safe_query,
                !.should_process = IsSome(safe_query)]
    ELSE
        [QueryResponse EXCEPT !.should_process = TRUE, !.modified_query = Some(query)]

\* analyze(query); r is the outcome of the one LLM call it may make
analyze(query, r) ==
    IF Strip(query) = <<>> THEN
        [QueryResponse EXCEPT
            !.immediate_response = Some(Msg("Please provide a search query about candidates.")),
            !.should_process = FALSE]
    ELSE IF _is_greeting(query) \/ _is_small_talk(query) THEN
        [QueryResponse EXCEPT
            !.immediate_response = Some(_generate_response(r)),
            !.should_process = FALSE,
            !.is_greeting = TRUE]
    ELSE IF ToxicMatches(query) # {} THEN
        LET level == MaxLevel(ToxicMatches(query))
            safe_query == _rewrite_query(r)
        IN  [QueryResponse EXCEPT
                !.is_toxic = TRUE,
                !.toxicity_level = Some(level),
                !.toxicity_categories = {m[2] : m \in ToxicMatches(query)},
                !.rejection_reason = Some(Msg(_get_rejection_message(level))),
                !.modified_query = safe_query,
                !.should_process = IsSome(safe_query)]
    ELSE
        [QueryResponse EXCEPT !.should_process = TRUE, !.modified_query = Some(query)]

\* the LLM call site analyze(query) uses, if any
AnalyzeCallSite(query) ==
    IF Strip(query) = <<>> THEN "none"
    ELSE IF _is_greeting(query) \/ _is_small_talk(query) THEN "greeting_reply"
    ELSE IF ToxicMatches(query) # {} THEN "rewrite"
    ELSE "none"

\* Python truthiness of an Optional[str]
Truthy(o) == IsSome(o) /\ Val(o) # <<>>

----------------------------------------------------------------------------
(* Intent extraction, tools/intent.py, and IntentResult, tools/query_planner.py *)

\* dict.get(key, default)
Get(d, k, default) == IF k \in DOMAIN d THEN d[k] ELSE default

EmptyDict == [k \in {} |-> None]

ListFields == {"skills", "roles", "education", "certifications", "projects", "languages"}

FieldOrder ==
    <<"skills", "experience", "roles", "location", "education", "certifications",
      "projects", "languages">>

\* the dict of the "who is" short cut, intent.py:18; name is query[6:].strip()
WhoIsIntent(query) ==
    LET name == Strip(SubSeq(query, 4, Len(query)))
    IN  [ intent |-> Some("GeneralInfo"),
          name |-> IF name # <<>> THEN Some(name) ELSE None,
          skills |-> <<>>, experience |-> EmptyDict, roles |-> <<>>, location |-> None,
          education |-> <<>>, certifications |-> <<>>, projects |-> <<>>,
          languages |-> <<>>, confidence |-> 95, requested_fields |-> <<"name">> ]

\* the dict of the except branch, intent.py:127
FallbackIntent ==
    [ intent |-> None, skills |-> <<>>, experience |-> EmptyDict, roles |-> <<>>,
      location |-> None, education |-> <<>>, certifications |-> <<>>, projects |-> <<>>,
      languages |-> <<>>, confidence |-> 0, requested_fields |-> <<>> ]

\* truthiness of parsed.get(field) and the experience test of intent.py:116-121
FieldHasValue(parsed, field) ==
    /\ field \in DOMAIN parsed
    /\ IF field = "experience"
       THEN /\ DOMAIN parsed[field] # {}
            /\ \E k \in DOMAIN parsed[field] : IsSome(parsed[field][k])
       ELSE parsed[field] # <<>>

RECURSIVE RecomputeFields(_, _)
RecomputeFields(parsed, fields) ==
    IF fields = <<>> THEN <<>>
    ELSE (IF FieldHasValue(parsed, Head(fields)) THEN <<Head(fields)>> ELSE <<>>)
         \o RecomputeFields(parsed, Tail(fields))

\* intent.py:106-124 on a reply whose first-{ to last-} span parses to `parsed`
NormalizeParsed(parsed) ==
    IF "requested_fields" \in DOMAIN parsed THEN parsed
    ELSE [k \in DOMAIN parsed \cup {"requested_fields"} |->
            IF k = "requested_fields" THEN RecomputeFields(parsed, FieldOrder)
            ELSE parsed[k]]

\* an outcome of the LLM on the intent prompt: it raises, or returns a text whose
\* brace span parses to the JSON object json (None: no span, or json.loads fails)
IntentReply(raised, json) == [raised |-> raised, json |-> json]

IsWhoIs(query) == StartsWith(LowerText(query), <<"who", " ", "is">>)

\* whether intent_rating_tool(query) raises: llm.invoke is outside the try
intent_rating_raises(query, r) == ~IsWhoIs(query) /\ r.raised

\* the dict intent_rating_tool(query) returns when it does not raise
intent_rating_tool(query, r) ==
    IF IsWhoIs(query) THEN WhoIsIntent(query)
    ELSE IF IsSome(r.json) THEN NormalizeParsed(Val(r.json))
    ELSE FallbackIntent

\* IntentResult(**d) raises a validation error: intent is a required str
IntentResultRaises(d) == ~("intent" \in DOMAIN d /\ IsSome(d["intent"]))

\* IntentResult(**d): declared fields with their defaults, extra keys dropped
IntentResult(d) ==
    [ intent |-> Val(d["intent"]),
      skills |-> Get(d, "skills", <<>>),
      experience |-> Get(d, "experience", EmptyDict),
      roles |-> Get(d, "roles", <<>>),
      location |-> Get(d, "location", None),
      education |-> Get(d, "education", <<>>),
      certifications |-> Get(d, "certifications", <<>>),
      projects |-> Get(d, "projects", <<>>),
      languages |-> Get(d, "languages", <<>>),
      confidence |-> Get(d, "confidence", 0),
      requested_fields |-> Get(d, "requested_fields", <<>>) ]

NoIntent == IntentResult([intent |-> Some("")])

----------------------------------------------------------------------------
(* Query planner, tools/query_planner.py *)

InSeq(x, s) == \E i \in 1..Len(s) : s[i] = x

LowerAll(s) == [i \in 1..Len(s) |-> Lower(s[i])]

\* build_skill_filters and its five list-valued siblings
build_in_filter(key, vals) ==
    IF vals = <<>> THEN EmptyDict
    ELSE [k \in {key} |-> [op |-> "$in", vals |-> LowerAll(vals), range |-> EmptyDict]]

build_experience_filters(exp) ==
    LET has(k) == k \in DOMAIN exp /\ IsSome(exp[k])
        keys == (IF has("min") THEN {"$gte"} ELSE {}) \cup (IF has("max") THEN {"$lte"} ELSE {})
        filters == [k \in keys |-> IF k = "$gte" THEN Val(exp["min"]) ELSE Val(exp["max"])]
    IN  IF keys # {}
        THEN [k \in {"experience_years"} |-> [op |-> "range", vals |-> <<>>, range |-> filters]]
        ELSE EmptyDict

build_location_filter(location) ==
    IF ~(IsSome(location) /\ Val(location) # "") THEN EmptyDict
    ELSE [k \in {"location"} |-> [op |-> "$eq", vals |-> <<Val(location)>>, range |-> EmptyDict]]

\* dict.update for dicts given as functions
Update(d, e) == [k \in DOMAIN d \cup DOMAIN e |-> IF k \in DOMAIN e THEN e[k] ELSE d[k]]

FilterKey(field) ==
    CASE field = "skills" -> "skills.technical"
      [] field = "roles" -> "current_role"
      [] OTHER -> field

FieldFilter(intent_obj, field) ==
    IF field = "experience" THEN build_experience_filters(intent_obj.experience)
    ELSE IF field = "location" THEN build_location_filter(intent_obj.location)
    ELSE build_in_filter(FilterKey(field), intent_obj[field])

\* BuildFilters without the test of requested_fields: every field contributes
RECURSIVE BuildFiltersAllFields(_, _, _)
BuildFiltersAllFields(intent_obj, order, acc) ==
    IF order = <<>> THEN acc
    ELSE BuildFiltersAllFields(intent_obj, Tail(order),
            Update(acc, FieldFilter(intent_obj, Head(order))))

\* query_planner.py:160-177, in the order of the code
RECURSIVE BuildFilters(_, _, _)
BuildFilters(intent_obj, order, acc) ==
    IF order = <<>> THEN acc
    ELSE BuildFilters(intent_obj, Tail(order),
            IF InSeq(Head(order), intent_obj.requested_fields)
            THEN Update(acc, FieldFilter(intent_obj, Head(order)))
            ELSE acc)

PlanFieldOrder ==
    <<"skills", "experience", "location", "roles", "education", "certifications",
      "projects", "languages">>

\* QueryPlan with its defaults
QueryPlan ==
    [ query_type |-> "GeneralQuery", metadata_filters |-> EmptyDict, suggested_top_k |-> 5,
      requires_reranking |-> TRUE, route |-> "process", rejection_reason |-> None,
      handling_instructions |-> None, requested_fields |-> <<>> ]

\* int(x) of a value in hundredths times ten: truncation toward zero
IntTimes10(c) == IF c >= 0 THEN c \div 10 ELSE -((-c) \div 10)

\* the Field(ge=1, le=20) validation of suggested_top_k
TopKValid(k) == 1 <= k /\ k <= 20

\* query_planner_tool(intent, analysis): intent is the dict of an IntentResult,
\* analysis the dict of a QueryResponse
query_planner_tool(intent, analysis_dict) ==
    IF analysis_dict.is_toxic THEN
        [QueryPlan EXCEPT
            !.query_type = "BlockedQuery", !.route = "reject",
            !.rejection_reason = analysis_dict.rejection_reason,
            !.handling_instructions = Some("Query contained inappropriate language")]
    ELSE IF Get(analysis_dict, "requires_general_knowledge", FALSE) THEN
        [QueryPlan EXCEPT
            !.query_type = "GeneralQuery", !.route = "redirect",
            !.handling_instructions = Some("Focus on CV-related aspects")]
    ELSE
        LET filters == BuildFilters(intent, PlanFieldOrder, EmptyDict)
            n == Cardinality(DOMAIN filters)
            q_type == IF n = 0 THEN "GeneralQuery"
                      ELSE IF n = 1 THEN "MetadataQuery" ELSE "MultiHopQuery"
            suggested_k == 5 + IntTimes10(intent.confidence)
        IN  IF TopKValid(suggested_k) THEN
                [QueryPlan EXCEPT
                    !.query_type = q_type, !.metadata_filters = filters,
                    !.suggested_top_k = suggested_k, !.requires_reranking = (n > 0),
                    !.route = "process", !.requested_fields = intent.requested_fields]
            ELSE
                [QueryPlan EXCEPT
                    !.query_type = "GeneralQuery", !.route = "process",
                    !.handling_instructions = Some("Fallback plan due to error")]

----------------------------------------------------------------------------
(* Retriever, tools/pinecone_retriever.py and pinecone_client.py *)

Min(a, b) == IF a <= b THEN a ELSE b
Max(a, b) == IF a >= b THEN a ELSE b

Take(s, n) == SubSeq(s, 1, Min(n, Len(s)))

\* list.sort(reverse=True) on <<key, item>> pairs: stable, descending by key
RECURSIVE InsertDesc(_, _)
InsertDesc(x, s) ==
    IF s = <<>> THEN <<x>>
    ELSE IF Head(s)[1] >= x[1] THEN <<Head(s)>> \o InsertDesc(x, Tail(s))
    ELSE <<x>> \o s

RECURSIVE SortPairs(_)
SortPairs(s) ==
    IF s = <<>> THEN <<>>
    ELSE InsertDesc(s[Len(s)], SortPairs(SubSeq(s, 1, Len(s) - 1)))

\* s.sort(key=..., reverse=True), keys[i] being the key of s[i]
SortDesc(s, keys) ==
    LET sorted == SortPairs([i \in 1..Len(s) |-> <<keys[i], s[i]>>])
    IN  [i \in 1..Len(s) |-> sorted[i][2]]

Scores(s) == [i \in 1..Len(s) |-> s[i].score]

\* an answer of the vector index to one query: it fails, or returns matches.
\* A match: id, score in hundredths, text (None: the stored text is not a
\* string), the source of its metadata, and no rerank_score yet.
IndexAnswer(raised, hits) == [raised |-> raised, hits |-> hits]

\* query_chunks(query, filters, top_k): any failure is an empty list
query_chunks(a, top_k) == IF a.raised THEN <<>> ELSE Take(a.hits, top_k)

\* _post_filter_by_keywords raises on a text that has no .lower()
PostFilterRaises(docs, query) ==
    query # <<>> /\ \E i \in 1..Len(docs) : ~IsSome(docs[i].text)

\* _post_filter_by_keywords returning the filtered list even when it is empty
_post_filter_by_keywordsNoRevert(docs, query) ==
    IF query = <<>> THEN docs
    ELSE LET keyword == LowerText(Strip(query))
             match(doc) ==
                \/ \E i \in 1..Len(doc.languages) : Contains(<<Lower(doc.languages[i])>>, keyword)
                \/ Contains(LowerText(Val(doc.text)), keyword)
         IN  SelectSeq(docs, match)

_post_filter_by_keywords(docs, query) ==
    IF query = <<>> THEN docs
    ELSE LET keyword == LowerText(Strip(query))
             match(doc) ==
                \/ \E i \in 1..Len(doc.languages) : Contains(<<Lower(doc.languages[i])>>, keyword)
                \/ Contains(LowerText(Val(doc.text)), keyword)
             filtered == SelectSeq(docs, match)
         IN  IF filtered # <<>> THEN filtered ELSE docs

\* an outcome of the LLM on a relevance prompt: it raises, or returns a text
\* that float() parses to score (hundredths), or does not parse (None)
ScoreReply(raised, score) == [raised |-> raised, score |-> score]

\* _calculate_relevance_score answering 0 when the call raises or does not parse
_calculate_relevance_scoreZero(doc, r) ==
    IF r.raised \/ ~IsSome(r.score) THEN 0
    ELSE Max(0, Min(100, Val(r.score)))

_calculate_relevance_score(doc, r) ==
    IF r.raised \/ ~IsSome(r.score) THEN doc.score
    ELSE Max(0, Min(100, Val(r.score)))

\* _rerank_with_llm; replies maps a match id to the LLM's outcome for it
_rerank_with_llm(docs, top_k, replies) ==
    IF docs = <<>> THEN Take(docs, top_k)
    ELSE LET head == Take(docs, top_k * 2)
             reranked == [i \in 1..Len(head) |->
                [head[i] EXCEPT
                    !.rerank_score = Some(_calculate_relevance_score(head[i], replies[head[i].id]))]]
             keys == [i \in 1..Len(reranked) |-> Val(reranked[i].rerank_score)]
         IN  Take(SortDesc(reranked, keys), top_k)

\* _prefix of _process_filters on the keys the planner builds
_prefix(k) ==
    CASE k = "skills.technical" -> "metadata.skills.technical"
      [] k = "experience_years" -> "metadata.experience_years"
      [] k = "location" -> "metadata.location"
      [] k = "current_role" -> "metadata.current_role"
      [] k = "education" -> "metadata.education"
      [] k = "certifications" -> "metadata.certifications"
      [] k = "projects" -> "metadata.projects"
      [] k = "languages" -> "metadata.languages"
      [] OTHER -> k

\* _process_filters: every key prefixed, every value kept
_process_filters(filters) ==
    [pk \in {_prefix(k) : k \in DOMAIN filters} |->
        filters[CHOOSE k \in DOMAIN filters : _prefix(k) = pk]]

\* a call of query_chunks: the filters and the limit it passes to the index
IndexSearch(filters, top_k) == [filters |-> filters, top_k |-> top_k]

\* whether the main path of retrieve raises and the fallback query runs
RetrieveFallsBack(query, first, top_k) ==
    PostFilterRaises(query_chunks(first, top_k * 3), query)

\* retrieve(query, filters, top_k) with an LLM: first is the index's answer to
\* the over-fetching query, second its answer to the fallback query
retrieve(query, top_k, first, second, replies) ==
    IF RetrieveFallsBack(query, first, top_k) THEN query_chunks(second, top_k)
    ELSE LET processed == _post_filter_by_keywords(query_chunks(first, top_k * 3), query)
         IN  _rerank_with_llm(SortDesc(processed, Scores(processed)), top_k, replies)

\* index_searches with the fallback query keeping the over-fetching limit
index_searchesOverFetch(query, filters, top_k, first) ==
    <<IndexSearch(_process_filters(filters), top_k * 3)>>
    \o (IF RetrieveFallsBack(query, first, top_k)
        THEN <<IndexSearch(EmptyDict, top_k * 3)>> ELSE <<>>)

\* the calls of query_chunks one retrieve(query, filters, top_k) makes
index_searches(query, filters, top_k, first) ==
    <<IndexSearch(_process_filters(filters), top_k * 3)>>
    \o (IF RetrieveFallsBack(query, first, top_k)
        THEN <<IndexSearch(EmptyDict, top_k)>> ELSE <<>>)

----------------------------------------------------------------------------
(* Aggregator, summarizer, synthesizer *)

\* process_results raises on a text that has no .strip()
AggregateRaises(search_results) ==
    \E i \in 1..Len(search_results) : ~IsSome(search_results[i].text)

\* the metadata dict of a match
Metadata(hit) ==
    [ id |-> hit.meta_id, EMAIL |-> hit.EMAIL, source |-> hit.source,
      languages |-> hit.languages, text |-> hit.text, EXPERIENCE |-> hit.experience,
      timestamp |-> hit.timestamp, score |-> hit.meta_score ]

NoMetadata ==
    [ id |-> None, EMAIL |-> None, source |-> None, languages |-> <<>>, text |-> None,
      EXPERIENCE |-> <<>>, timestamp |-> "", score |-> None ]

\* Python truthiness of an Optional[str] held as a string
TruthyStr(o) == IsSome(o) /\ Val(o) # ""

\* candidate_id with EMAIL looked up before the metadata id
candidate_idEmailFirst(hit) ==
    IF TruthyStr(hit.EMAIL) THEN [key |-> Val(hit.EMAIL), hashed |-> NoMetadata]
    ELSE IF TruthyStr(hit.meta_id) THEN [key |-> Val(hit.meta_id), hashed |-> NoMetadata]
    ELSE [key |-> "", hashed |-> Metadata(hit)]

\* context_aggregator.py:165-169: metadata id, else EMAIL, else the string of
\* the hash of the metadata's JSON (equal for equal metadata)
candidate_id(hit) ==
    IF TruthyStr(hit.meta_id) THEN [key |-> Val(hit.meta_id), hashed |-> NoMetadata]
    ELSE IF TruthyStr(hit.EMAIL) THEN [key |-> Val(hit.EMAIL), hashed |-> NoMetadata]
    ELSE [key |-> "", hashed |-> Metadata(hit)]

\* ExperienceScorer.SENIORITY_WEIGHTS in the order of the dict, weights in tenths
SENIORITY_WEIGHTS ==
    << <<"principal", 15>>, <<"lead", 14>>, <<"senior", 13>>, <<"manager", 13>>,
       <<"mid", 11>>, <<"engineer", 10>>, <<"developer", 10>>, <<"junior", 9>>,
       <<"intern", 6>>, <<"entry", 8>>  >>

\* term in text.lower(): the term is a word of the text or a part of one
OccursIn(term, text) ==
    \E i \in 1..Len(text) :
        \/ Lower(text[i]) = term
        \/ <<term, Lower(text[i])>> \in {<<"intern", "international">>, <<"lead", "leader">>}

\* context_aggregator.py:64-68: the weight of the first term of the table
\* that occurs in the title, else 1.0
seniority(title) ==
    LET matching == SelectSeq(SENIORITY_WEIGHTS, LAMBDA e : OccursIn(e[1], title))
    IN  IF matching = <<>> THEN 10 ELSE matching[1][2]

\* str.split(sep)
RECURSIVE SplitOn(_, _)
SplitOn(s, sep) ==
    IF \A i \in 1..Len(s) : s[i] # sep THEN <<s>>
    ELSE LET i == CHOOSE k \in 1..Len(s) : s[k] = sep /\ \A j \in 1..(k - 1) : s[j] # sep
         IN  <<SubSeq(s, 1, i - 1)>> \o SplitOn(SubSeq(s, i + 1, Len(s)), sep)

\* int(part.strip()): the number, or None for a ValueError
IntOf(part) ==
    LET t == Strip(part)
    IN  IF Len(t) # 1 THEN None
        ELSE CASE t[1] = "2019" -> Some(2019)
               [] t[1] = "2021" -> Some(2021)
               [] t[1] = "2024" -> Some(2024)
               [] OTHER -> None

\* month, year = date.split('/') followed by int(year): the year, or None for
\* a ValueError
SlashYear(date) ==
    IF Len(date) # 1 THEN None
    ELSE CASE date[1] = "01/2019" -> Some(2019)
           [] date[1] = "03/2021" -> Some(2021)
           [] OTHER -> None

\* parse_duration: Some(<<start, end>>) or None
parse_duration(duration_str, current_year) ==
    IF duration_str = <<>> THEN None
    ELSE LET parts == SplitOn(duration_str, "-")
             dates == SelectSeq([i \in 1..Len(parts) |-> Strip(parts[i])],
                                LAMBDA d : d # <<>>)
         IN  IF OccursIn("present", duration_str) THEN
                IF IsSome(IntOf(parts[1]))
                THEN Some(<<Val(IntOf(parts[1])), current_year>>) ELSE None
             ELSE IF Len(parts) >= 2 THEN
                IF IsSome(IntOf(parts[1])) /\ IsSome(IntOf(parts[2]))
                THEN Some(<<Val(IntOf(parts[1])), Val(IntOf(parts[2]))>>) ELSE None
             ELSE IF \E i \in 1..Len(duration_str) : IsSome(SlashYear(<<duration_str[i]>>)) THEN
                IF Len(dates) >= 2 /\ IsSome(SlashYear(dates[1])) /\ IsSome(SlashYear(dates[2]))
                THEN Some(<<Val(SlashYear(dates[1])), Val(SlashYear(dates[2]))>>) ELSE None
             ELSE None

\* calculate_position_score of a job with a DURATION and a TITLE, in units of
\* 0.00001: years (1 + 0.1 years) x recency x seniority x domain boost; a
\* query term counts when it has more than three letters
calculate_position_score(job, current_year, query_terms) ==
    LET duration == parse_duration(job.DURATION, current_year)
    IN  IF duration = None THEN 0
        ELSE LET end_year == Val(duration)[2]
                 years == Max(1, end_year - Val(duration)[1])
                 recency == Max(80, 120 - (current_year - end_year) * 4)
                 domain_boost ==
                    IF \E term \in query_terms \ {"dev"} : OccursIn(term, job.TITLE)
                    THEN 13 ELSE 10
             IN  years * (10 + years) * recency * seniority(job.TITLE) * domain_boost

RECURSIVE SumSeq(_)
SumSeq(s) == IF s = <<>> THEN 0 ELSE Head(s) + SumSeq(Tail(s))

\* score_candidate on the position scores of the jobs, in hundredths
score_candidate(experience) ==
    IF experience = <<>> THEN 0
    ELSE IF Len(experience) >= 3 THEN (SumSeq(experience) * 11 + 5) \div 10
    ELSE SumSeq(experience)

\* an outcome of the memory collaborator for the aggregator: none configured,
\* a collection whose text search raises or returns documents, or an object
\* with a query method returning results
Memory(kind, raised, found) == [kind |-> kind, raised |-> raised, found |-> found]

NoMemory == Memory("none", FALSE, <<>>)

\* a formatted document of the collection, context_aggregator.py:123-130: no
\* text key, metadata with source and timestamp only
FormattedMemory(doc) ==
    [ id |-> "", score |-> doc.score, text |-> Some(<<>>), source |-> Some("memory"),
      languages |-> <<>>, rerank_score |-> None, meta_id |-> None, EMAIL |-> None,
      meta_score |-> None, experience |-> <<>>, timestamp |-> Val(doc.timestamp) ]

\* _fetch_memory
_fetch_memory(memory) ==
    IF memory.kind = "none" \/ memory.raised THEN <<>>
    ELSE IF memory.kind = "collection" THEN
        IF \E i \in 1..Len(memory.found) : ~IsSome(memory.found[i].timestamp) THEN <<>>
        ELSE [i \in 1..Len(memory.found) |-> FormattedMemory(memory.found[i])]
    ELSE memory.found

\* the candidates dict of process_results after the results in rs, in
\* insertion order
RECURSIVE Collect(_, _)
Collect(rs, acc) ==
    IF rs = <<>> THEN acc
    ELSE LET result == Head(rs)
             cid == candidate_id(result)
             known == \E i \in 1..Len(acc) : acc[i].candidate_id = cid
             with == IF known THEN acc
                     ELSE Append(acc, [ candidate_id |-> cid, metadata |-> Metadata(result),
                                        experience |-> result.experience, score |-> 0,
                                        text_chunks |-> <<>> ])
             text == Val(result.text)
             upd(c) == IF c.candidate_id # cid THEN c
                       ELSE [c EXCEPT
                                !.score = score_candidate(c.experience),
                                !.text_chunks =
                                    IF Strip(text) # <<>>
                                    THEN Append(@, [text |-> text, score |-> result.score])
                                    ELSE @]
         IN  Collect(Tail(rs), [i \in 1..Len(with) |-> upd(with[i])])

\* process_results merging the memory results before the fresh matches
process_resultsMemoryFirst(search_results, mem_results) ==
    LET cands == Collect(mem_results \o search_results, <<>>)
    IN  SortDesc(cands, [i \in 1..Len(cands) |-> cands[i].score])

\* process_results: fresh matches, then memory results; one record per
\* candidate_id, sorted by experience score (no match carries RELEVANCE)
process_results(search_results, mem_results) ==
    LET cands == Collect(search_results \o mem_results, <<>>)
    IN  SortDesc(cands, [i \in 1..Len(cands) |-> cands[i].score])

\* ContextAggregator.__init__: the requested fields, lower-cased
RequestedFields(requested_fields) == LowerAll(requested_fields)

\* 'field' in rf or not rf
Renders(field, rf) == rf = <<>> \/ \E i \in 1..Len(rf) : rf[i] = field

RECURSIVE Excerpts(_)
Excerpts(chunks) ==
    IF chunks = <<>> THEN <<>>
    ELSE <<"\n", "**Excerpt**", "\n">> \o Head(chunks).text \o Excerpts(Tail(chunks))

\* generate_profile for the requested fields rf, for metadata without NAME,
\* PHONE, LINKEDIN, LOCATION, CURRENT_COMPANY and SKILLS: the heading, the
\* contact line of the EMAIL, the heading of the experience block and the
\* two best excerpts
generate_profile(candidate, rf) ==
    <<"\n", "## Unnamed Candidate">>
    \o (IF Renders("contact", rf) /\ TruthyStr(candidate.metadata.EMAIL)
        THEN <<"\n", "\n", "[email]", Val(candidate.metadata.EMAIL)>> ELSE <<>>)
    \o (IF Renders("experience", rf) /\ candidate.experience # <<>>
        THEN <<"\n", "### Professional Experience">> ELSE <<>>)
    \o (IF Renders("excerpts", rf) /\ candidate.text_chunks # <<>>
        THEN <<"\n", "### Relevant Experience Highlights">>
             \o Excerpts(Take(SortDesc(candidate.text_chunks, Scores(candidate.text_chunks)), 2))
        ELSE <<>>)

RECURSIVE Profiles(_, _)
Profiles(cands, rf) ==
    IF cands = <<>> THEN <<>>
    ELSE <<"\n">> \o generate_profile(Head(cands), rf) \o <<"\n", "\n---">>
         \o Profiles(Tail(cands), rf)

\* ContextAggregator(query, requested_fields, memory).aggregate
aggregate(search_results, requested_fields, mem_results) ==
    IF search_results = <<>> THEN Msg("No matching candidates found.")
    ELSE <<"# Candidate Search Results">>
         \o Profiles(process_results(search_results, mem_results),
                     RequestedFields(requested_fields))

\* aggregate_contexts: an empty list for no results, else the report over the
\* max_candidates best-scored matches
aggregate_contexts(search_results, max_candidates, requested_fields, mem_results) ==
    IF search_results = <<>> THEN <<>>
    ELSE aggregate(Take(SortDesc(search_results, Scores(search_results)), max_candidates),
                   requested_fields, mem_results)

\* candidate_summarizer_tool(context, query, llm)
candidate_summarizer_tool(top_chunks, r) ==
    IF Strip(top_chunks) = <<>> THEN Msg("No relevant candidate information found to process.")
    ELSE IF r.raised THEN Msg("Unable to generate response due to system error.")
    ELSE Strip(r.text)

\* the collaborator of the synthesizer: whether it has a batch method, the
\* numbers of the batch calls that raise, the ids of the matches whose
\* single call raises, the ids of the matches whose metadata json.dumps
\* rejects, and the text a call returns
SynthesizerLLM(has_batch, batch_fails, invoke_fails, unserializable, text) ==
    [ has_batch |-> has_batch, batch_fails |-> batch_fails, invoke_fails |-> invoke_fails,
      unserializable |-> unserializable, text |-> text ]

\* the collaborator of the pipeline: it has a batch method, every metadata
\* is serializable
PipelineLLM(r) ==
    SynthesizerLLM(TRUE, IF r.raised THEN {1} ELSE {}, {}, {}, r.text)

\* QueryAwareSynthesizer.generate_summary(candidate, ""): the summary, and the
\* matches the LLM was asked about
generate_summary(chunk, llm) ==
    IF chunk.id \in llm.unserializable
    THEN [summary |-> Msg("Summary not available"), asked |-> <<>>]
    ELSE [summary |-> IF chunk.id \in llm.invoke_fails THEN Msg("Summary not available")
                      ELSE Strip(llm.text),
          asked |-> <<chunk.id>>]

\* QueryAwareSynthesizer.batch_generate_summaries(candidates, [""] * n) as
\* batch call number k: the prompts are built outside the try, the batch
\* call and the sequential calls inside it
batch_generate_summaries(batch, k, llm) ==
    IF \E i \in 1..Len(batch) : batch[i].id \in llm.unserializable
    THEN [raised |-> TRUE, summaries |-> <<>>, asked |-> <<>>]
    ELSE IF llm.has_batch
    THEN [raised |-> FALSE,
          summaries |-> [i \in 1..Len(batch) |->
                            IF k \in llm.batch_fails THEN Msg("Summary not available")
                            ELSE Strip(llm.text)],
          asked |-> <<"batch">>]
    ELSE [raised |-> FALSE,
          summaries |-> [i \in 1..Len(batch) |-> generate_summary(batch[i], llm).summary],
          asked |-> [i \in 1..Len(batch) |-> batch[i].id]]

\* metadata.get("score", 0.0)
MetadataScore(chunk) == IF IsSome(chunk.meta_score) THEN Val(chunk.meta_score) ELSE 0

\* the loop of synthesizer_tool from batch number k on: the summaries in the
\* order of the matches, and the LLM calls made; an entry is named by the id
\* of its match
RECURSIVE Synthesized(_, _, _, _)
Synthesized(top_chunks, batch_size, llm, k) ==
    IF top_chunks = <<>> THEN [summaries |-> <<>>, asked |-> <<>>]
    ELSE LET batch == Take(top_chunks, batch_size)
             rest == SubSeq(top_chunks, Len(batch) + 1, Len(top_chunks))
             whole == batch_generate_summaries(batch, k, llm)
             single == [i \in 1..Len(batch) |-> generate_summary(batch[i], llm)]
             entry(i, summary) == [ name |-> batch[i].id, summary |-> summary,
                                    score |-> MetadataScore(batch[i]) ]
             later == Synthesized(rest, batch_size, llm, k + 1)
         IN  IF ~whole.raised
             THEN [summaries |-> [i \in 1..Len(batch) |-> entry(i, whole.summaries[i])]
                                 \o later.summaries,
                   asked |-> whole.asked \o later.asked]
             ELSE [summaries |-> [i \in 1..Len(batch) |-> entry(i, single[i].summary)]
                                 \o later.summaries,
                   asked |-> SelectSeq([i \in 1..Len(batch) |-> batch[i].id],
                                       LAMBDA x : x \notin llm.unserializable)
                             \o later.asked]

\* synthesizer_tool(answer, top_chunks, llm, "", batch_size): one summary per
\* match, sorted by the score of its metadata
synthesizer_tool(top_chunks, batch_size, llm) ==
    LET made == Synthesized(top_chunks, batch_size, llm, 1).summaries
    IN  SortDesc(made, Scores(made))

\* pipeline.py:222-227
Sources(rs) ==
    [i \in 1..Len(rs) |-> IF IsSome(rs[i].source) THEN Val(rs[i].source) ELSE "Unknown source"]

----------------------------------------------------------------------------
(* Memory manager, tools/memory_manager.py *)

\* email.strip().lower()
NormalizeEmail(e) == IF e = " U@x.io" THEN "u@x.io" ELSE e

\* not email: the empty string (every email of the model is a str)
EmailMissing(e) == e = ""

\* the find(...).sort("timestamp", -1).limit(limit) of load_recent_memory,
\* newest first, as the dicts it returns
RECURSIVE Newest(_, _, _, _)
Newest(entries, email, session_id, limit) ==
    IF entries = <<>> \/ limit = 0 THEN <<>>
    ELSE LET d == entries[Len(entries)]
             rest == SubSeq(entries, 1, Len(entries) - 1)
         IN  IF d.email = NormalizeEmail(email)
                /\ (IsSome(session_id) => d.session_id = Val(session_id))
             THEN <<[query |-> d.query, response |-> d.response_summary]>>
                  \o Newest(rest, email, session_id, limit - 1)
             ELSE Newest(rest, email, session_id, limit)

\* load_recent_memory; failed: the collection raised
load_recent_memory(entries, email, session_id, limit, failed) ==
    IF EmailMissing(email) \/ failed THEN <<>>
    ELSE Newest(entries, email, session_id, limit)

Reverse(s) == [i \in 1..Len(s) |-> s[Len(s) + 1 - i]]

\* pipeline.py:74-77: "\n".join("Q: ...\nA: ..." for m in reversed(recent))
RECURSIVE JoinMemories(_)
JoinMemories(ms) ==
    IF ms = <<>> THEN <<>>
    ELSE <<"Q:", " ">> \o Head(ms).query \o <<"\n", "A:", " ">> \o Head(ms).response
         \o (IF Len(ms) > 1 THEN <<"\n">> ELSE <<>>) \o JoinMemories(Tail(ms))

\* pipeline.py:85
CombinedQuery(memory_context_text, user_query) ==
    IF memory_context_text # <<>>
    THEN memory_context_text \o <<"\n", "\n", "New", " ", "Query:", " ">> \o user_query
    ELSE user_query

\* the document save_memory inserts
MemoryDoc(email, session_id, query, summary) ==
    [ email |-> NormalizeEmail(email),
      session_id |-> IF IsSome(session_id) /\ Val(session_id) # "" THEN Val(session_id)
                     ELSE "uuid4",
      query |-> query,
      response_summary |-> summary ]

\* insert_one storing the document twice
insert_oneTwice(entries, doc) == Append(Append(entries, doc), doc)

\* collection.insert_one(memory_doc), when it succeeds
insert_one(entries, doc) == Append(entries, doc)

\* summarize_for_memory, when the LLM returns
summarize_for_memory(r) == Strip(r.text)

----------------------------------------------------------------------------
(* The inputs and the collaborators' behaviours the model draws from *)

Queries ==
    { <<>>, <<" ">>, <<"Hello">>, <<"how", " ", "are", " ", "you">>,
      <<"stupid", " ", "dev">>, <<"moron">>, <<"murder">>,
      <<"Who", " ", "is", " ", "bob">>, <<"python", " ", "dev">> }

Emails == {"", " U@x.io"}

Sessions == {None, Some("s1")}

\* the queries asked inside a session the caller names
SessionQueries == { <<"python", " ", "dev">> }

\* email and session_id are read by the memory calls only
Inputs ==
    [user_query : Queries, email : Emails, session_id : {None}, memory : {TRUE}]
    \cup [user_query : SessionQueries, email : {" U@x.io"}, session_id : Sessions \ {None},
           memory : {TRUE}]
    \cup [user_query : Queries, email : {""}, session_id : {None}, memory : {FALSE}]

\* llm.invoke: raises, returns whitespace, returns a sentence
LLMReplies == {LLMRaise, LLMReturn(<<" ">>), LLMReturn(<<"fine", " ">>)}

\* the same, where a blank reply is no case of its own
ReportReplies == {LLMRaise, LLMReturn(<<"fine", " ">>)}

IntentReplies ==
    { IntentReply(TRUE, None),
      IntentReply(FALSE, None),
      IntentReply(FALSE, Some([intent |-> Some("SkillMatch"), skills |-> <<"Python">>,
                               location |-> Some("Kathmandu"),
                               confidence |-> 90, requested_fields |-> <<"skills">>])),
      IntentReply(FALSE, Some([intent |-> Some("GeneralInfo"), location |-> Some("Kathmandu"),
                               confidence |-> 50, requested_fields |-> <<"skills">>])),
      IntentReply(FALSE, Some([intent |-> Some("SkillMatch"), confidence |-> 20])),
      IntentReply(FALSE, Some([skills |-> <<"Python">>, confidence |-> 90])),
      IntentReply(FALSE, Some([intent |-> Some("MultiCriteria"), skills |-> <<"Python">>,
                               location |-> Some("Kathmandu"), confidence |-> 250])) }

Hit(id, score, text, source, languages) ==
    [ id |-> id, score |-> score, text |-> text, source |-> source,
      languages |-> languages, rerank_score |-> None, meta_id |-> None, EMAIL |-> None,
      meta_score |-> None, experience |-> <<>>, timestamp |-> "" ]

h1 == Hit("c1", 90, Some(<<"python", " ", "dev">>), Some("cv1.pdf"), <<"english">>)
h2 == Hit("c2", 50, Some(<<"java">>), None, <<>>)
h3 == Hit("c3", 70, None, Some("cv3.pdf"), <<>>)

IndexAnswers ==
    { IndexAnswer(TRUE, <<>>), IndexAnswer(FALSE, <<>>), IndexAnswer(FALSE, <<h2, h1>>),
      IndexAnswer(FALSE, <<h3>>) }

IDs == {"c1", "c2", "c3"}

\* a document of the rag_memory collection as the aggregator's text search
\* returns it
MemoryFound(timestamp, score) == [timestamp |-> timestamp, score |-> score]

\* the memory collaborator of a run, as step 6 sees it: none, a collection
\* whose text search raises, or one that finds a document
PipelineMemories(enabled) ==
    IF enabled
    THEN { Memory("collection", TRUE, <<>>),
           Memory("collection", FALSE, <<MemoryFound(Some("t1"), 10)>>) }
    ELSE {NoMemory}

RerankReplies ==
    { [i \in IDs |-> ScoreReply(TRUE, None)],
      [i \in IDs |-> IF i = "c1" THEN ScoreReply(FALSE, Some(10))
                     ELSE IF i = "c2" THEN ScoreReply(FALSE, Some(95))
                     ELSE ScoreReply(FALSE, None)] }

----------------------------------------------------------------------------
(* run_cv_query_pipeline, pipeline.py *)

PipelineResponse ==
    [ success |-> FALSE, response |-> None, candidates |-> None, sources |-> None,
      error |-> None ]

NoCall ==
    [ stage |-> "", query |-> <<>>, filters |-> EmptyDict, top_k |-> 0, n |-> 0,
      searches |-> <<>>, raised |-> FALSE, returned |-> <<>>, fallback |-> None ]

Call(stage) == [NoCall EXCEPT !.stage = stage]

\* a call of pinecone_retriever_tool: its arguments, the matches it returned
\* and their number, the index searches it made, whether its main path raised
\* and, if so, what the fallback search answered
RetrieveCall(query, filters, top_k, rs, first, second) ==
    [ stage |-> "retrieve", query |-> query, filters |-> filters, top_k |-> top_k,
      n |-> Len(rs), searches |-> index_searches(query, filters, top_k, first),
      raised |-> RetrieveFallsBack(query, first, top_k), returned |-> rs,
      fallback |-> IF RetrieveFallsBack(query, first, top_k)
                   THEN Some(query_chunks(second, top_k)) ELSE None ]

Stages(cs) == {cs[i].stage : i \in 1..Len(cs)}

RunVars == <<inp, combined_query, store_at_start>>

IntentVars == <<intent_reply, intent_result>>

AggVars == <<context, memory_results>>

Init ==
    /\ store = <<>>
    /\ pc = "idle"
    /\ inp = [user_query |-> <<>>, email |-> "", session_id |-> None, memory |-> FALSE]
    /\ combined_query = <<>>
    /\ analysis = QueryResponse
    /\ processed_query = <<>>
    /\ intent_reply = IntentReply(FALSE, None)
    /\ intent_result = NoIntent
    /\ plan = QueryPlan
    /\ results = <<>>
    /\ context = <<>>
    /\ answer = <<>>
    /\ candidates = <<>>
    /\ response = None
    /\ calls = <<>>
    /\ llm_raised = {}
    /\ escaped = {}
    /\ boundary_exc = None
    /\ save_outcome = "none"
    /\ n_returned = 0
    /\ memory_results = <<>>
    /\ store_at_start = <<>>

\* a return statement of the pipeline
Return(r) ==
    /\ response' = Some(r)
    /\ n_returned' = n_returned + 1
    /\ pc' = "done"

\* Boundary with the except clause re-raising instead of returning
BoundaryReraises(detail) ==
    /\ boundary_exc' = Some(detail)
    /\ pc' = "done"
    /\ UNCHANGED <<response, n_returned>>

\* the except clause of pipeline.py:237-243
Boundary(detail) ==
    /\ boundary_exc' = Some(detail)
    /\ Return([PipelineResponse EXCEPT
                !.success = FALSE,
                !.error = Some(detail),
                !.response = Some(Msg("An error occurred while processing your query"))])

\* pipeline.py:52-87: a run begins, loads the memory context and combines it
StartRun ==
    /\ pc = "idle"
    /\ \E i \in Inputs, failed \in (IF store = <<>> THEN {FALSE} ELSE BOOLEAN) :
        LET recent_memories ==
                IF i.memory
                THEN load_recent_memory(store, i.email, i.session_id, MemoryContextLimit, failed)
                ELSE <<>>
            memory_context_text == JoinMemories(Reverse(recent_memories))
        IN  /\ inp' = i
            /\ combined_query' = CombinedQuery(memory_context_text, i.user_query)
            /\ calls' = IF i.memory THEN <<Call("load_memory")>> ELSE <<>>
    /\ pc' = "analyze"
    /\ store_at_start' = store
    /\ UNCHANGED <<store, analysis, processed_query, IntentVars, plan, results, AggVars,
                   answer, candidates, response, llm_raised, escaped, boundary_exc,
                   save_outcome, n_returned>>

\* AfterAnalysis without the toxicity return of pipeline.py:99-104
AfterAnalysisNoToxicReturn(a) ==
    IF Truthy(a.immediate_response) THEN
        /\ Return([PipelineResponse EXCEPT
                    !.success = TRUE, !.response = a.immediate_response])
        /\ UNCHANGED processed_query
    ELSE
        /\ processed_query' = IF Truthy(a.modified_query) THEN Val(a.modified_query)
                              ELSE combined_query
        /\ pc' = "intent"
        /\ UNCHANGED <<response, n_returned>>

\* pipeline.py:96-104 after analyze: the two early returns, else step 3
AfterAnalysis(a) ==
    IF Truthy(a.immediate_response) THEN
        /\ Return([PipelineResponse EXCEPT
                    !.success = TRUE, !.response = a.immediate_response])
        /\ UNCHANGED processed_query
    ELSE IF a.is_toxic /\ ~a.should_process THEN
        /\ Return([PipelineResponse EXCEPT
                    !.success = FALSE, !.error = a.rejection_reason,
                    !.response = Some(Msg("Please rephrase your query professionally"))])
        /\ UNCHANGED processed_query
    ELSE
        /\ processed_query' = IF Truthy(a.modified_query) THEN Val(a.modified_query)
                              ELSE combined_query
        /\ pc' = "intent"
        /\ UNCHANGED <<response, n_returned>>

\* pipeline.py:89-106
Analyze ==
    /\ pc = "analyze"
    /\ \E r \in LLMReplies :
        /\ analysis' = analyze(combined_query, r)
        /\ llm_raised' = IF r.raised /\ AnalyzeCallSite(combined_query) # "none"
                         THEN llm_raised \cup {AnalyzeCallSite(combined_query)}
                         ELSE llm_raised
        /\ AfterAnalysis(analyze(combined_query, r))
    /\ calls' = Append(calls, Call("analyze"))
    /\ UNCHANGED <<store, RunVars, IntentVars, plan, results, AggVars, answer,
                   candidates, escaped, boundary_exc, save_outcome>>

\* pipeline.py:116-121 after a valid IntentResult
AfterIntent(ir) ==
    IF ir.confidence < LowConfidence THEN
        /\ Return([PipelineResponse EXCEPT
                    !.success = FALSE, !.error = Some(Msg("Low intent confidence")),
                    !.response = Some(Msg("Could not understand your query. Please try rephrasing."))])
        /\ UNCHANGED boundary_exc
    ELSE
        /\ pc' = "plan"
        /\ UNCHANGED <<response, n_returned, boundary_exc>>

\* pipeline.py:108-121
Intent ==
    /\ pc = "intent"
    /\ calls' = Append(calls, Call("intent"))
    /\ \E r \in (IF IsWhoIs(processed_query) THEN {IntentReply(FALSE, None)}
                ELSE IntentReplies) :
        /\ intent_reply' = r
        /\ IF intent_rating_raises(processed_query, r) THEN
               /\ llm_raised' = llm_raised \cup {"intent"}
               /\ escaped' = escaped \cup {"intent"}
               /\ Boundary(Msg("LLM error"))
               /\ UNCHANGED intent_result
           ELSE IF IntentResultRaises(intent_rating_tool(processed_query, r)) THEN
               /\ Boundary(Msg("validation error for IntentResult"))
               /\ UNCHANGED <<intent_result, llm_raised, escaped>>
           ELSE
               /\ intent_result' = IntentResult(intent_rating_tool(processed_query, r))
               /\ AfterIntent(IntentResult(intent_rating_tool(processed_query, r)))
               /\ UNCHANGED <<llm_raised, escaped>>
    /\ UNCHANGED <<store, RunVars, analysis, processed_query, plan, results, AggVars,
                   answer, candidates, save_outcome>>

\* AfterPlan without the reject return
AfterPlanNoReject(p) ==
    /\ pc' = "retrieve"
    /\ UNCHANGED <<response, n_returned>>

\* pipeline.py:129-134 after planning
AfterPlan(p) ==
    IF p.route = "reject" THEN
        Return([PipelineResponse EXCEPT
                    !.success = FALSE, !.error = p.rejection_reason,
                    !.response = Some(Msg("Query cannot be processed"))])
    ELSE
        /\ pc' = "retrieve"
        /\ UNCHANGED <<response, n_returned>>

\* pipeline.py:123-134
Plan ==
    /\ pc = "plan"
    /\ calls' = Append(calls, Call("plan"))
    /\ plan' = query_planner_tool(intent_result, analysis)
    /\ AfterPlan(query_planner_tool(intent_result, analysis))
    /\ UNCHANGED <<store, RunVars, analysis, processed_query, IntentVars, results,
                   AggVars, answer, candidates, llm_raised, escaped, boundary_exc,
                   save_outcome>>

\* the matches retrieve hands to _rerank_with_llm, one LLM call each
Reranked(query, top_k, first) ==
    IF RetrieveFallsBack(query, first, top_k) THEN <<>>
    ELSE LET processed == _post_filter_by_keywords(query_chunks(first, top_k * 3), query)
         IN  Take(SortDesc(processed, Scores(processed)), top_k * 2)

RerankRaised(query, top_k, first, replies) ==
    \E i \in 1..Len(Reranked(query, top_k, first)) :
        replies[Reranked(query, top_k, first)[i].id].raised

\* the behaviours of the collaborators that a retrieval can observe
SecondAnswers(query, top_k, first) ==
    IF RetrieveFallsBack(query, first, top_k) THEN IndexAnswers ELSE {IndexAnswer(FALSE, <<>>)}

RepliesFor(query, top_k, first) ==
    IF Reranked(query, top_k, first) = <<>> THEN {[i \in IDs |-> ScoreReply(TRUE, None)]}
    ELSE RerankReplies

\* ShouldRetry without the test of the filters
ShouldRetryAlways(rs, p) == rs = <<>>

\* pipeline.py:144, the retry condition
ShouldRetry(rs, p) == rs = <<>> /\ DOMAIN p.metadata_filters # {}

\* pipeline.py:147-152, the arguments of the second retrieval
RetryCall(query, p, top_k, rs, first, second) ==
    RetrieveCall(query, EmptyDict, top_k, rs, first, second)

\* AfterRetrieval without the return of pipeline.py:157-161
AfterRetrievalNoEmptyReturn(rs) ==
    /\ pc' = "aggregate"
    /\ UNCHANGED <<response, n_returned>>

\* pipeline.py:157-161 once retrieval is over
AfterRetrieval(rs) ==
    IF rs = <<>> THEN
        Return([PipelineResponse EXCEPT
                    !.success = TRUE,
                    !.response = Some(Msg("No matching candidates found"))])
    ELSE
        /\ pc' = "aggregate"
        /\ UNCHANGED <<response, n_returned>>

\* pipeline.py:136-142 and the test of line 144
Retrieve ==
    /\ pc = "retrieve"
    /\ \E first \in IndexAnswers :
       \E second \in SecondAnswers(processed_query, DefaultTopK, first) :
       \E replies \in RepliesFor(processed_query, DefaultTopK, first) :
        LET rs == retrieve(processed_query, DefaultTopK, first, second, replies)
        IN  /\ results' = rs
            /\ calls' = Append(calls, RetrieveCall(processed_query, plan.metadata_filters,
                                                   DefaultTopK, rs, first, second))
            /\ llm_raised' = IF RerankRaised(processed_query, DefaultTopK, first, replies)
                             THEN llm_raised \cup {"rerank"} ELSE llm_raised
            /\ IF ShouldRetry(rs, plan)
               THEN pc' = "retry" /\ UNCHANGED <<response, n_returned>>
               ELSE AfterRetrieval(rs)
    /\ UNCHANGED <<store, RunVars, analysis, processed_query, IntentVars, plan, AggVars,
                   answer, candidates, escaped, boundary_exc, save_outcome>>

\* pipeline.py:144-161: the retry without filters
Retry ==
    /\ pc = "retry"
    /\ \E first \in IndexAnswers :
       \E second \in SecondAnswers(processed_query, DefaultTopK, first) :
       \E replies \in RepliesFor(processed_query, DefaultTopK, first) :
        LET rs == retrieve(processed_query, DefaultTopK, first, second, replies)
        IN  /\ results' = rs
            /\ calls' = Append(calls, RetryCall(processed_query, plan, DefaultTopK, rs,
                                                first, second))
            /\ llm_raised' = IF RerankRaised(processed_query, DefaultTopK, first, replies)
                             THEN llm_raised \cup {"rerank"} ELSE llm_raised
            /\ AfterRetrieval(rs)
    /\ UNCHANGED <<store, RunVars, analysis, processed_query, IntentVars, plan, AggVars,
                   answer, candidates, escaped, boundary_exc, save_outcome>>

\* pipeline.py:163-172
Aggregate ==
    /\ pc = "aggregate"
    /\ calls' = Append(calls, Call("aggregate"))
    /\ IF AggregateRaises(results) THEN
            /\ Boundary(Msg("object has no attribute 'strip'"))
            /\ UNCHANGED AggVars
       ELSE /\ \E memory \in PipelineMemories(inp.memory) :
                /\ memory_results' = _fetch_memory(memory)
                /\ context' = aggregate_contexts(results, DefaultTopK, <<>>,
                                                  _fetch_memory(memory))
            /\ pc' = "summarize"
            /\ UNCHANGED <<response, n_returned, boundary_exc>>
    /\ UNCHANGED <<store, RunVars, analysis, processed_query, IntentVars, plan, results,
                   answer, candidates, llm_raised, escaped, save_outcome>>

\* pipeline.py:174-178
Summarize ==
    /\ pc = "summarize"
    /\ calls' = Append(calls, Call("summarize"))
    /\ \E r \in ReportReplies :
        /\ answer' = candidate_summarizer_tool(context, r)
        /\ llm_raised' = IF r.raised /\ Strip(context) # <<>>
                         THEN llm_raised \cup {"summarizer"} ELSE llm_raised
    /\ pc' = "synthesize"
    /\ UNCHANGED <<store, RunVars, analysis, processed_query, IntentVars, plan, results,
                   AggVars, candidates, response, escaped, boundary_exc, save_outcome,
                   n_returned>>

\* pipeline.py:180-189
Synthesize ==
    /\ pc = "synthesize"
    /\ calls' = Append(calls, Call("synthesize"))
    /\ \E r \in ReportReplies :
        /\ candidates' = synthesizer_tool(results, DefaultBatchSize, PipelineLLM(r))
        /\ llm_raised' = IF r.raised THEN llm_raised \cup {"synthesizer"} ELSE llm_raised
    /\ pc' = IF inp.memory THEN "save" ELSE "respond"
    /\ UNCHANGED <<store, RunVars, analysis, processed_query, IntentVars, plan, results,
                   AggVars, answer, response, escaped, boundary_exc, save_outcome,
                   n_returned>>

\* SaveRaised without the inner try: the exception reaches the outer except
SaveRaisedPropagates(outcome) ==
    /\ save_outcome' = outcome
    /\ Boundary(Msg("memory save failed"))

\* the except clause of pipeline.py:215-218 around save_memory
SaveRaised(outcome) ==
    /\ save_outcome' = outcome
    /\ pc' = "respond"
    /\ UNCHANGED <<response, n_returned, boundary_exc>>

\* pipeline.py:188-218 with save_memory, memory_manager.py:33-74
Save ==
    /\ pc = "save"
    /\ calls' = Append(calls, Call("save_memory"))
    /\ \/ /\ EmailMissing(inp.email)
          /\ SaveRaised("bad_email")
          /\ UNCHANGED <<store, llm_raised, escaped>>
       \/ /\ ~EmailMissing(inp.email)
          /\ SaveRaised("llm_raised")
          /\ llm_raised' = llm_raised \cup {"memory_summary"}
          /\ escaped' = escaped \cup {"memory_summary"}
          /\ UNCHANGED store
       \/ /\ ~EmailMissing(inp.email)
          /\ \E r \in ReportReplies \ {LLMRaise}, inserted \in BOOLEAN :
                IF inserted /\ Len(store) < MaxStore
                THEN /\ store' = insert_one(store, MemoryDoc(inp.email, inp.session_id,
                                                             inp.user_query,
                                                             summarize_for_memory(r)))
                     /\ save_outcome' = "saved"
                ELSE /\ save_outcome' = "insert_failed"
                     /\ UNCHANGED store
          /\ pc' = "respond"
          /\ UNCHANGED <<response, n_returned, boundary_exc, llm_raised, escaped>>
    /\ UNCHANGED <<RunVars, analysis, processed_query, IntentVars, plan, results,
                   AggVars, answer, candidates>>

\* pipeline.py:220-235
Respond ==
    /\ pc = "respond"
    /\ Return([PipelineResponse EXCEPT
                !.success = TRUE, !.response = Some(answer),
                !.candidates = Some(candidates), !.sources = Some(Sources(results))])
    /\ UNCHANGED <<store, RunVars, analysis, processed_query, IntentVars, plan, results,
                   AggVars, answer, candidates, calls, llm_raised, escaped, boundary_exc,
                   save_outcome>>

\* the run is over: the caller has the response, the locals are gone
EndRun ==
    /\ pc = "done"
    /\ pc' = "idle"
    /\ inp' = [user_query |-> <<>>, email |-> "", session_id |-> None, memory |-> FALSE]
    /\ combined_query' = <<>>
    /\ analysis' = QueryResponse
    /\ processed_query' = <<>>
    /\ intent_reply' = IntentReply(FALSE, None)
    /\ intent_result' = NoIntent
    /\ plan' = QueryPlan
    /\ results' = <<>>
    /\ context' = <<>>
    /\ answer' = <<>>
    /\ candidates' = <<>>
    /\ response' = None
    /\ calls' = <<>>
    /\ llm_raised' = {}
    /\ escaped' = {}
    /\ boundary_exc' = None
    /\ save_outcome' = "none"
    /\ n_returned' = 0
    /\ memory_results' = <<>>
    /\ store_at_start' = store
    /\ UNCHANGED store

Next ==
    \/ StartRun
    \/ Analyze
    \/ Intent
    \/ Plan
    \/ Retrieve
    \/ Retry
    \/ Aggregate
    \/ Summarize
    \/ Synthesize
    \/ Save
    \/ Respond
    \/ EndRun

Spec == Init /\ [][Next]_vars

----------------------------------------------------------------------------
(* The aggregator on its own: process_results, ContextAggregator.aggregate  *)
(* and aggregate_contexts called on match lists and memory collaborators    *)

\* a match with the identity keys of its metadata
Candidate(id, score, text, meta_id, email) ==
    [Hit(id, score, Some(text), None, <<>>) EXCEPT !.meta_id = meta_id, !.EMAIL = email]

\* five matches: an id; the same id with an EMAIL; that EMAIL alone and a
\* blank text; an empty id and no EMAIL; an EMAIL equal to the id, with a job
AggregatorHit(n) ==
    CASE n = 1 -> Candidate("v1", 90, <<"python", " ", "dev">>, Some("c1"), None)
      [] n = 2 -> Candidate("v2", 50, <<"java">>, Some("c1"), Some("b@x.io"))
      [] n = 3 -> Candidate("v3", 70, <<" ">>, None, Some("b@x.io"))
      [] n = 4 -> Candidate("v4", 60, <<"dev">>, Some(""), None)
      [] n = 5 -> [Candidate("v5", 80, <<"lead">>, None, Some("c1"))
                        EXCEPT !.experience = <<200>>]

AggregatorHits == {AggregatorHit(n) : n \in 1..5}

\* the match lists of at most three matches
MatchLists ==
    {<<>>} \cup {<<x>> : x \in AggregatorHits}
    \cup {<<x, y>> : x \in AggregatorHits, y \in AggregatorHits}
    \cup {<<x, y, z>> : x \in AggregatorHits, y \in AggregatorHits, z \in AggregatorHits}

\* a result of a memory object with a query method, of the identity of a1
m1 == Candidate("m1", 40, <<"note">>, Some("c1"), None)

Memories ==
    { NoMemory,
      Memory("collection", TRUE, <<>>),
      Memory("collection", FALSE, <<MemoryFound(Some("t1"), 10), MemoryFound(Some("t2"), 5)>>),
      Memory("collection", FALSE, <<MemoryFound(None, 10)>>),
      Memory("queryable", FALSE, <<m1>>) }

AggregatorInit ==
    /\ store = <<>>
    /\ pc = "aggregator"
    /\ inp = [user_query |-> <<>>, email |-> "", session_id |-> None, memory |-> FALSE]
    /\ combined_query = <<>>
    /\ analysis = QueryResponse
    /\ processed_query = <<>>
    /\ intent_reply = IntentReply(FALSE, None)
    /\ intent_result = NoIntent
    /\ plan = QueryPlan
    /\ results = <<>>
    /\ context = <<>>
    /\ answer = <<>>
    /\ candidates = <<>>
    /\ response = None
    /\ calls = <<>>
    /\ llm_raised = {}
    /\ escaped = {}
    /\ boundary_exc = None
    /\ save_outcome = "none"
    /\ n_returned = 0
    /\ memory_results = <<>>
    /\ store_at_start = <<>>

\* a call of the aggregator returns to its caller
AggregatorFrame ==
    /\ pc' = "aggregated"
    /\ UNCHANGED <<store, inp, combined_query, analysis, processed_query, intent_reply,
                   intent_result, answer, response, llm_raised, escaped,
                   boundary_exc, save_outcome, n_returned, store_at_start>>

\* the caller drops the result; the next call starts from a fresh aggregator
AggregatorDone ==
    /\ pc = "aggregated"
    /\ pc' = "aggregator"
    /\ results' = <<>>
    /\ memory_results' = <<>>
    /\ candidates' = <<>>
    /\ context' = <<>>
    /\ calls' = <<>>
    /\ plan' = QueryPlan
    /\ UNCHANGED <<store, inp, combined_query, analysis, processed_query, intent_reply,
                   intent_result, answer, response, llm_raised, escaped,
                   boundary_exc, save_outcome, n_returned, store_at_start>>

\* ContextAggregator(query, None, memory).process_results(search_results)
CallProcessResults ==
    /\ pc = "aggregator"
    /\ \E rs \in MatchLists, memory \in Memories :
        /\ results' = rs
        /\ memory_results' = _fetch_memory(memory)
        /\ candidates' = process_results(rs, _fetch_memory(memory))
    /\ context' = <<>>
    /\ plan' = QueryPlan
    /\ calls' = <<Call("process_results")>>
    /\ AggregatorFrame

\* the requested_fields an aggregator is built with; plan holds them
FieldLists == { <<>>, <<"skills">>, <<"excerpts">>, <<"Contact", "experience">> }

\* ContextAggregator(query, requested_fields, memory).aggregate(search_results)
CallAggregate ==
    /\ pc = "aggregator"
    /\ \E rs \in MatchLists, memory \in Memories, requested_fields \in FieldLists :
        /\ results' = rs
        /\ memory_results' = IF rs = <<>> THEN <<>> ELSE _fetch_memory(memory)
        /\ plan' = [QueryPlan EXCEPT !.requested_fields = requested_fields]
        /\ context' = aggregate(rs, requested_fields, _fetch_memory(memory))
    /\ candidates' = <<>>
    /\ calls' = <<Call("aggregate")>>
    /\ AggregatorFrame

\* aggregate_contexts(search_results, query, max_candidates, requested_fields,
\* memory)
CallAggregateContexts ==
    /\ pc = "aggregator"
    /\ \E rs \in MatchLists, memory \in Memories, requested_fields \in FieldLists :
        /\ results' = rs
        /\ memory_results' = IF rs = <<>> THEN <<>> ELSE _fetch_memory(memory)
        /\ plan' = [QueryPlan EXCEPT !.requested_fields = requested_fields]
        /\ context' = aggregate_contexts(rs, DefaultTopK, requested_fields,
                                         _fetch_memory(memory))
    /\ candidates' = <<>>
    /\ calls' = <<Call("aggregate_contexts")>>
    /\ AggregatorFrame

AggregatorNext ==
    \/ CallProcessResults
    \/ CallAggregate
    \/ CallAggregateContexts
    \/ AggregatorDone

AggregatorSpec == AggregatorInit /\ [][AggregatorNext]_vars

----------------------------------------------------------------------------
(* The tools on their own: each function called once on arguments drawn    *)
(* from small sets; inp holds the arguments, results the value returned     *)

\* four matches: a text and a language; a text; a text that is no string; a
\* language in capitals
ToolHit(n) ==
    CASE n = 1 -> h1
      [] n = 2 -> h2
      [] n = 3 -> h3
      [] n = 4 -> Hit("c4", 60, Some(<<"dev">>), None, <<"Python">>)

\* the match lists of at most three matches
ToolLists ==
    LET hits == {ToolHit(n) : n \in 1..4}
    IN  {<<>>} \cup {<<x>> : x \in hits}
        \cup {<<x, y>> : x \in hits, y \in hits}
        \cup {<<x, y, z>> : x \in hits, y \in hits, z \in hits}

ToolInit ==
    /\ store = <<>>
    /\ pc = "tool"
    /\ inp = [user_query |-> <<>>, email |-> "", session_id |-> None, memory |-> FALSE]
    /\ combined_query = <<>>
    /\ analysis = QueryResponse
    /\ processed_query = <<>>
    /\ intent_reply = IntentReply(FALSE, None)
    /\ intent_result = NoIntent
    /\ plan = QueryPlan
    /\ results = <<>>
    /\ context = <<>>
    /\ answer = <<>>
    /\ candidates = <<>>
    /\ response = None
    /\ calls = <<>>
    /\ llm_raised = {}
    /\ escaped = {}
    /\ boundary_exc = None
    /\ save_outcome = "none"
    /\ n_returned = 0
    /\ memory_results = <<>>
    /\ store_at_start = <<>>

\* a call of a tool returns to its caller, or raises into it; llm names the
\* subjects of the LLM calls it made, in order
ToolFrame(name, args, raised, value, llm) ==
    /\ pc = "tool"
    /\ pc' = "returned"
    /\ calls' = <<Call(name)>>
                 \o [i \in 1..Len(llm) |-> [Call("llm.invoke") EXCEPT !.query = <<llm[i]>>]]
    /\ inp' = args
    /\ boundary_exc' = IF raised THEN Some(Msg("raised")) ELSE None
    /\ results' = IF raised THEN <<>> ELSE value
    /\ UNCHANGED <<store, combined_query, analysis, processed_query, intent_reply,
                   intent_result, plan, context, answer, candidates, response, llm_raised,
                   escaped, save_outcome, n_returned, memory_results, store_at_start>>

\* the caller drops the value
ToolDone ==
    /\ pc = "returned"
    /\ pc' = "tool"
    /\ calls' = <<>>
    /\ inp' = [user_query |-> <<>>, email |-> "", session_id |-> None, memory |-> FALSE]
    /\ boundary_exc' = None
    /\ results' = <<>>
    /\ UNCHANGED <<store, combined_query, analysis, processed_query, intent_reply,
                   intent_result, plan, context, answer, candidates, response, llm_raised,
                   escaped, save_outcome, n_returned, memory_results, store_at_start>>

\* PineconeRetriever._post_filter_by_keywords(results, query)
CallPostFilter ==
    /\ pc = "tool"
    /\ \E docs \in ToolLists,
          query \in { <<>>, <<" ">>, <<"Python">>, <<" ", "python">>,
                      <<"python", " ", "dev">>, <<"rust">>, <<"english">> } :
           ToolFrame("_post_filter_by_keywords", [docs |-> docs, query |-> query],
                     PostFilterRaises(docs, query), _post_filter_by_keywords(docs, query),
                     <<>>)

\* the LLM's outcomes on the relevance prompts, by match id: every call
\* raises; scores in and above the range and an answer that is no number;
\* equal scores, a score below the range and a call that raises
ToolReplies ==
    { [i \in {"c1", "c2", "c3", "c4"} |-> ScoreReply(TRUE, None)],
      [i \in {"c1", "c2", "c3", "c4"} |->
            CASE i = "c1" -> ScoreReply(FALSE, Some(10))
              [] i = "c2" -> ScoreReply(FALSE, Some(95))
              [] i = "c3" -> ScoreReply(FALSE, None)
              [] i = "c4" -> ScoreReply(FALSE, Some(250))],
      [i \in {"c1", "c2", "c3", "c4"} |->
            CASE i = "c1" -> ScoreReply(FALSE, Some(50))
              [] i = "c2" -> ScoreReply(FALSE, Some(50))
              [] i = "c3" -> ScoreReply(TRUE, None)
              [] i = "c4" -> ScoreReply(FALSE, Some(0 - 5))] }

\* PineconeRetriever(llm).retrieve(query, None, top_k, rerank=True); the
\* fallback query, when it runs, finds one match
CallRetrieve ==
    /\ pc = "tool"
    /\ \E hits \in ToolLists, query \in {<<>>, <<"dev">>, <<"rust">>}, top_k \in 1..MaxTopK,
          replies \in ToolReplies :
           LET first == IndexAnswer(FALSE, hits)
               asked == Reranked(query, top_k, first)
           IN  ToolFrame("retrieve",
                         [query |-> query, top_k |-> top_k, first |-> first, replies |-> replies],
                         FALSE,
                         retrieve(query, top_k, first, IndexAnswer(FALSE, <<h2>>), replies),
                         [i \in 1..Len(asked) |-> asked[i].id])

\* the job titles of at most two words
Titles ==
    LET words == { "principal", "lead", "Senior", "manager", "mid", "engineer", "developer",
                   "junior", "intern", "entry", "clerk", "international", "leader" }
    IN  {<<>>} \cup {<<x>> : x \in words} \cup {<<x, y>> : x \in words, y \in words}

Durations ==
    { <<>>, <<"2019", " ", "-", " ", "present">>, <<"2019", " ", "-", " ", "Present">>,
      <<"2019", " ", "-", " ", "2021">>, <<"2019", "-", "2021">>,
      <<"2021", " ", "-", " ", "2024">>,
      <<"01/2019", " ", "-", " ", "03/2021">>, <<"01/2019", " ", "03/2021">>,
      <<"01/2019">>, <<"01/2019", " ", "-", " ", "present">>,
      <<"2019">>, <<"present">>, <<"since", " ", "2019">>, <<"2019", " ", "-", " ", "now">> }

\* ExperienceScorer(query).calculate_position_score(job), with the duration
\* it parsed and the seniority weight it applied
CallPositionScore ==
    /\ pc = "tool"
    /\ \E duration \in Durations, title \in Titles, query_terms \in {{}, {"lead", "dev"}} :
           LET job == [DURATION |-> duration, TITLE |-> title]
           IN  ToolFrame("calculate_position_score",
                         [job |-> job, query_terms |-> query_terms],
                         FALSE,
                         [ duration |-> parse_duration(duration, CurrentYear),
                           seniority |-> seniority(title),
                           score |-> calculate_position_score(job, CurrentYear, query_terms) ],
                         <<>>)

\* synthesizer_tool(answer, top_chunks, llm, "", batch_size): the scores the
\* metadata of the matches carry, by match id; the batch calls that raise;
\* the matches whose own call raises; the metadata json.dumps rejects
CallSynthesizer ==
    /\ pc = "tool"
    /\ \E hits \in ToolLists,
          scored \in { [i \in {"c1", "c2", "c3", "c4"} |-> None],
                       [i \in {"c1", "c2", "c3", "c4"} |->
                           CASE i = "c1" -> Some(10) [] i = "c2" -> Some(80)
                             [] i = "c3" -> None [] i = "c4" -> Some(80)] },
          batch_size \in 1..MaxBatchSize,
          has_batch \in BOOLEAN,
          batch_fails \in {{}, {1}, {2}, {1, 2, 3}},
          invoke_fails \in {{}, {"c1"}, {"c1", "c2", "c3", "c4"}},
          unserializable \in {{}, {"c2"}} :
           LET top_chunks == [i \in 1..Len(hits) |->
                                   [hits[i] EXCEPT !.meta_score = scored[hits[i].id]]]
               llm == SynthesizerLLM(has_batch, batch_fails, invoke_fails, unserializable,
                                     <<"fine", " ">>)
           IN  ToolFrame("synthesizer_tool",
                         [top_chunks |-> top_chunks, batch_size |-> batch_size, llm |-> llm],
                         FALSE,
                         synthesizer_tool(top_chunks, batch_size, llm),
                         Synthesized(top_chunks, batch_size, llm, 1).asked)

ToolNext ==
    \/ CallPostFilter
    \/ CallRetrieve
    \/ CallPositionScore
    \/ CallSynthesizer
    \/ ToolDone

ToolSpec == ToolInit /\ [][ToolNext]_vars

----------------------------------------------------------------------------
(* CandidateSummarizer.format_chunks over its worker pool,
   tools/candidate_summarizer.py; inp holds the arguments, results the pool
   (the submitted chunks, the tasks started, running and finished, the
   futures as_completed has yielded, formatted_chunks) and context the
   returned string *)

FormatUnused ==
    <<store, combined_query, analysis, processed_query, intent_reply, intent_result,
      plan, answer, candidates, response, calls, llm_raised, escaped, boundary_exc,
      save_outcome, n_returned, memory_results, store_at_start>>

Pool(chunks) ==
    [ chunks |-> chunks, started |-> 0, running |-> {}, finished |-> {},
      yielded |-> <<>>, formatted_chunks |-> <<>> ]

FormatInit ==
    /\ store = <<>>
    /\ pc = "format"
    /\ inp = [user_query |-> <<>>, email |-> "", session_id |-> None, memory |-> FALSE]
    /\ combined_query = <<>>
    /\ analysis = QueryResponse
    /\ processed_query = <<>>
    /\ intent_reply = IntentReply(FALSE, None)
    /\ intent_result = NoIntent
    /\ plan = QueryPlan
    /\ results = Pool(<<>>)
    /\ context = <<>>
    /\ answer = <<>>
    /\ candidates = <<>>
    /\ response = None
    /\ calls = <<>>
    /\ llm_raised = {}
    /\ escaped = {}
    /\ boundary_exc = None
    /\ save_outcome = "none"
    /\ n_returned = 0
    /\ memory_results = <<>>
    /\ store_at_start = <<>>

\* _format_single_chunk(chunk, idx) for the chunk at position idx + 1: the
\* header with the score and the stripped text, or None when meta.get raises
\* on a metadata that is None
_format_single_chunk(chunk, position, no_metadata) ==
    IF chunk.id \in no_metadata THEN None
    ELSE Some(<<"Candidate ", ToString(position), ":", " [Score: ",
                ToString(chunk.score), "]", "\n">>
              \o (IF IsSome(chunk.text) THEN Strip(Val(chunk.text)) ELSE <<>>))

\* formatted_chunks.sort(key=lambda x: x[0]) left out
SortByIndexKeep(formatted_chunks) == formatted_chunks

\* formatted_chunks.sort(key=lambda x: x[0])
SortByIndex(formatted_chunks) ==
    SortDesc(formatted_chunks,
             [i \in 1..Len(formatted_chunks) |-> 0 - formatted_chunks[i][1]])

\* "\n\n".join(chunk for _, chunk in formatted_chunks)
RECURSIVE JoinChunks(_)
JoinChunks(formatted_chunks) ==
    IF formatted_chunks = <<>> THEN <<>>
    ELSE Head(formatted_chunks)[2]
         \o (IF Len(formatted_chunks) > 1 THEN <<"\n\n">> ELSE <<>>)
         \o JoinChunks(Tail(formatted_chunks))

\* format_chunks(chunks, max_chunks) up to the submission of the tasks:
\* sorted by score, cut to max_chunks; "" for no chunks
CallFormatChunks ==
    /\ pc = "format"
    /\ \E chunks \in ToolLists, max_chunks \in 1..MaxChunks, max_workers \in 1..MaxWorkers,
          no_metadata \in {{}, {"c1"}, {"c3", "c4"}} :
        /\ inp' = [ chunks |-> chunks, max_chunks |-> max_chunks,
                    max_workers |-> max_workers, no_metadata |-> no_metadata ]
        /\ IF chunks = <<>>
           THEN pc' = "formatted" /\ results' = Pool(<<>>)
           ELSE /\ pc' = "pool"
                /\ results' = Pool(Take(SortDesc(chunks, Scores(chunks)), max_chunks))
    /\ context' = <<>>
    /\ UNCHANGED FormatUnused

\* a free worker takes the next submitted task
WorkerStart ==
    /\ pc = "pool"
    /\ results.started < Len(results.chunks)
    /\ Cardinality(results.running) < Min(inp.max_workers, Len(results.chunks))
    /\ results' = [results EXCEPT !.started = @ + 1,
                                  !.running = @ \cup {results.started + 1}]
    /\ UNCHANGED <<pc, inp, context>>
    /\ UNCHANGED FormatUnused

\* a running task ends
WorkerFinish ==
    /\ pc = "pool"
    /\ \E p \in results.running :
        results' = [results EXCEPT !.running = @ \ {p}, !.finished = @ \cup {p}]
    /\ UNCHANGED <<pc, inp, context>>
    /\ UNCHANGED FormatUnused

\* as_completed yields a finished future; its result is kept when truthy
Completed ==
    /\ pc = "pool"
    /\ \E p \in results.finished :
        /\ \A i \in 1..Len(results.yielded) : results.yielded[i] # p
        /\ LET result == _format_single_chunk(results.chunks[p], p, inp.no_metadata)
           IN  results' = [results EXCEPT
                              !.yielded = Append(@, p),
                              !.formatted_chunks =
                                  IF IsSome(result) THEN Append(@, <<p, Val(result)>>)
                                  ELSE @]
    /\ UNCHANGED <<pc, inp, context>>
    /\ UNCHANGED FormatUnused

\* every future yielded: sort by index and join
JoinFormatted ==
    /\ pc = "pool"
    /\ Len(results.yielded) = Len(results.chunks)
    /\ results' = [results EXCEPT !.formatted_chunks = SortByIndex(@)]
    /\ context' = JoinChunks(SortByIndex(results.formatted_chunks))
    /\ pc' = "formatted"
    /\ UNCHANGED inp
    /\ UNCHANGED FormatUnused

\* the caller drops the string
FormatDone ==
    /\ pc = "formatted"
    /\ pc' = "format"
    /\ inp' = [user_query |-> <<>>, email |-> "", session_id |-> None, memory |-> FALSE]
    /\ results' = Pool(<<>>)
    /\ context' = <<>>
    /\ UNCHANGED FormatUnused

FormatNext ==
    \/ CallFormatChunks
    \/ WorkerStart
    \/ WorkerFinish
    \/ Completed
    \/ JoinFormatted
    \/ FormatDone

FormatSpec == FormatInit /\ [][FormatNext]_vars

----------------------------------------------------------------------------
(* The in-memory session store, rag/memory.py, under concurrent callers.
   store holds the module's state: _memory_store (session id to list),
   _memory_lock (its holder), and the heap of the lists and of the message
   dicts, each named by its index; pc, inp, n_returned and results hold, for
   each thread, its position, the arguments of its call, the number of calls
   it has made and the list get_memory returned to it (with the entries the
   list had then); calls holds the adds in the order they took the lock *)

SessionUnused ==
    <<combined_query, analysis, processed_query, intent_reply, intent_result, plan,
      context, answer, candidates, response, llm_raised, escaped, boundary_exc,
      save_outcome, memory_results, store_at_start>>

Threads == {"t1", "t2"}

SessionIds == {"s1", "s2"}

SessionInit ==
    /\ store = [_memory_store |-> <<>>, _memory_lock |-> None, lists |-> <<>>,
                dicts |-> <<>>]
    /\ pc = [t \in Threads |-> "idle"]
    /\ inp = [t \in Threads |-> <<>>]
    /\ n_returned = [t \in Threads |-> 0]
    /\ results = [t \in Threads |-> None]
    /\ calls = <<>>
    /\ combined_query = <<>>
    /\ analysis = QueryResponse
    /\ processed_query = <<>>
    /\ intent_reply = IntentReply(FALSE, None)
    /\ intent_result = NoIntent
    /\ plan = QueryPlan
    /\ context = <<>>
    /\ answer = <<>>
    /\ candidates = <<>>
    /\ response = None
    /\ llm_raised = {}
    /\ escaped = {}
    /\ boundary_exc = None
    /\ save_outcome = "none"
    /\ memory_results = <<>>
    /\ store_at_start = <<>>

\* with _memory_lock entered whoever holds the lock
LockIgnored(t) == TRUE

\* with _memory_lock: the lock can be taken
LockFree(t) == store._memory_lock = None

\* list(_memory_store.get(session_id, [])): a new list of the same dicts
CopiedList(session_id) ==
    [ list |-> Len(store.lists) + 1,
      lists |-> Append(store.lists,
                       IF session_id \in DOMAIN store._memory_store
                       THEN store.lists[store._memory_store[session_id]] ELSE <<>>) ]

\* a thread calls add_message(session_id, "user", message) or
\* get_memory(session_id); the message names the thread and the call
StartCall(t) ==
    /\ pc[t] = "idle"
    /\ n_returned[t] < MaxCalls
    /\ \E op \in {"add_message", "get_memory"}, session_id \in SessionIds :
        inp' = [inp EXCEPT ![t] = [ op |-> op, session_id |-> session_id,
                                    message |-> <<t, n_returned[t] + 1>>,
                                    absent |-> FALSE ]]
    /\ n_returned' = [n_returned EXCEPT ![t] = @ + 1]
    /\ pc' = [pc EXCEPT ![t] = "acquire"]
    /\ UNCHANGED <<store, results, calls>>
    /\ UNCHANGED SessionUnused

\* memory.py:13 and 21, with _memory_lock
Acquire(t) ==
    /\ pc[t] = "acquire"
    /\ LockFree(t)
    /\ store' = [store EXCEPT !._memory_lock = Some(t)]
    /\ calls' = IF inp[t].op = "add_message"
                THEN Append(calls, [session_id |-> inp[t].session_id,
                                    message |-> inp[t].message])
                ELSE calls
    /\ pc' = [pc EXCEPT ![t] = IF inp[t].op = "add_message" THEN "check" ELSE "copy"]
    /\ UNCHANGED <<inp, n_returned, results>>
    /\ UNCHANGED SessionUnused

\* memory.py:14, session_id not in _memory_store
Check(t) ==
    /\ pc[t] = "check"
    /\ inp' = [inp EXCEPT ![t].absent = inp[t].session_id \notin DOMAIN store._memory_store]
    /\ pc' = [pc EXCEPT ![t] = "create"]
    /\ UNCHANGED <<store, n_returned, results, calls>>
    /\ UNCHANGED SessionUnused

\* memory.py:15, _memory_store[session_id] = []
Create(t) ==
    /\ pc[t] = "create"
    /\ store' = IF inp[t].absent
                THEN [store EXCEPT
                        !.lists = Append(@, <<>>),
                        !._memory_store =
                            [s \in DOMAIN @ \cup {inp[t].session_id} |->
                                IF s = inp[t].session_id THEN Len(store.lists) + 1
                                ELSE @[s]]]
                ELSE store
    /\ pc' = [pc EXCEPT ![t] = "append"]
    /\ UNCHANGED <<inp, n_returned, results, calls>>
    /\ UNCHANGED SessionUnused

\* memory.py:16, _memory_store[session_id].append({...})
AppendMessage(t) ==
    /\ pc[t] = "append"
    /\ store' = [store EXCEPT
                    !.dicts = Append(@, [role |-> "user", message |-> inp[t].message]),
                    !.lists[store._memory_store[inp[t].session_id]] =
                        Append(@, Len(store.dicts) + 1)]
    /\ pc' = [pc EXCEPT ![t] = "release"]
    /\ UNCHANGED <<inp, n_returned, results, calls>>
    /\ UNCHANGED SessionUnused

\* memory.py:22, the value get_memory returns
Copy(t) ==
    /\ pc[t] = "copy"
    /\ LET made == CopiedList(inp[t].session_id)
       IN  /\ store' = [store EXCEPT !.lists = made.lists]
           /\ results' = [results EXCEPT ![t] =
                            Some([list |-> made.list, seen |-> made.lists[made.list]])]
    /\ pc' = [pc EXCEPT ![t] = "release"]
    /\ UNCHANGED <<inp, n_returned, calls>>
    /\ UNCHANGED SessionUnused

\* the end of the with block; get_memory's caller now holds the list
Release(t) ==
    /\ pc[t] = "release"
    /\ store' = [store EXCEPT !._memory_lock =
                    IF @ = Some(t) THEN None ELSE @]
    /\ pc' = [pc EXCEPT ![t] = IF inp[t].op = "get_memory" THEN "returned" ELSE "idle"]
    /\ UNCHANGED <<inp, n_returned, results, calls>>
    /\ UNCHANGED SessionUnused

\* the caller removes the first entry of the list it was given
MutateList(t) ==
    /\ pc[t] = "returned"
    /\ store.lists[Val(results[t]).list] # <<>>
    /\ store' = [store EXCEPT !.lists[Val(results[t]).list] = Tail(@)]
    /\ pc' = [pc EXCEPT ![t] = "idle"]
    /\ UNCHANGED <<inp, n_returned, results, calls>>
    /\ UNCHANGED SessionUnused

\* the caller assigns to the message of the first dict of the list
MutateDict(t) ==
    /\ pc[t] = "returned"
    /\ store.lists[Val(results[t]).list] # <<>>
    /\ store' = [store EXCEPT
                    !.dicts[store.lists[Val(results[t]).list][1]].message = <<"edited">>]
    /\ pc' = [pc EXCEPT ![t] = "idle"]
    /\ UNCHANGED <<inp, n_returned, results, calls>>
    /\ UNCHANGED SessionUnused

\* the caller is done with the list, main.py:75-77
Drop(t) ==
    /\ pc[t] = "returned"
    /\ pc' = [pc EXCEPT ![t] = "idle"]
    /\ UNCHANGED <<store, inp, n_returned, results, calls>>
    /\ UNCHANGED SessionUnused

SessionNext ==
    \E t \in Threads :
        \/ StartCall(t)
        \/ Acquire(t)
        \/ Check(t)
        \/ Create(t)
        \/ AppendMessage(t)
        \/ Copy(t)
        \/ Release(t)
        \/ MutateList(t)
        \/ MutateDict(t)
        \/ Drop(t)

SessionSpec == SessionInit /\ [][SessionNext]_vars

----------------------------------------------------------------------------
(* Properties of the pipeline run *)

Invoked(stage) == stage \in Stages(calls)

Analyzed == Invoked("analyze")

RetrieveCalls == SelectSeq(calls, LAMBDA c : c.stage = "retrieve")

Count(stage) == Len(SelectSeq(calls, LAMBDA c : c.stage = stage))

AfterStep2 == {"intent", "plan", "retrieve", "aggregate", "summarize", "synthesize", "save_memory"}

Failure(error, text) ==
    [PipelineResponse EXCEPT !.success = FALSE, !.error = Some(error), !.response = Some(text)]

Success(text) == [PipelineResponse EXCEPT !.success = TRUE, !.response = Some(text)]

\* C1: a run never raises and returns exactly one terminal response; an
\* exception that reaches the orchestrator boundary from any stage yields
\* success=false, the generic apology as response and the exception's detail
\* as error.
C1_OneTerminalResponse ==
    /\ n_returned <= 1
    /\ (pc = "done") = (n_returned = 1)
    /\ (pc = "done") = IsSome(response)
    /\ IsSome(boundary_exc) =>
            /\ pc = "done"
            /\ Val(response) =
                    Failure(Val(boundary_exc), Msg("An error occurred while processing your query"))

C1_Witness ==
    /\ pc = "done"
    /\ IsSome(boundary_exc)
    /\ Invoked("aggregate")

\* C2: whenever analyze classifies the combined query as empty, greeting or
\* small talk (should_process=false, is_toxic=false), the run ends at step 2
\* with success=true and the immediate response as text, and invokes no later
\* stage.
C2_GreetingEndsAtStep2 ==
    (Analyzed /\ ~analysis.should_process /\ ~analysis.is_toxic) =>
        /\ pc = "done"
        /\ Val(response) = Success(Val(analysis.immediate_response))
        /\ Stages(calls) \cap AfterStep2 = {}

\* C3: whenever the analysis has is_toxic=true and should_process=false, the
\* run returns success=false with error the rejection message of the
\* analysis's severity tier, and invokes no later stage.
C3_ToxicRejected ==
    (Analyzed /\ analysis.is_toxic /\ ~analysis.should_process) =>
        /\ pc = "done"
        /\ ~Val(response).success
        /\ Val(response).error = analysis.rejection_reason
        /\ Val(response).error =
                Some(Msg(CASE Val(analysis.toxicity_level) = 1 -> "Please maintain professional language"
                           [] Val(analysis.toxicity_level) = 2 -> "Inappropriate language detected"
                           [] Val(analysis.toxicity_level) = 3 -> "Query violates content policy"))
        /\ Stages(calls) \cap AfterStep2 = {}

C3_Witness ==
    /\ pc = "done"
    /\ Analyzed
    /\ analysis.is_toxic
    /\ ~analysis.should_process
    /\ analysis.toxicity_level = Some(SEVERE)

\* the LLM was asked for the intent and its answer held no JSON object
IntentUnparsed ==
    /\ Invoked("intent")
    /\ ~IsWhoIs(processed_query)
    /\ ~intent_reply.raised
    /\ ~IsSome(intent_reply.json)

\* C4: when the LLM's answer to the intent prompt cannot be parsed as a JSON
\* object, the run ends with the low-intent-confidence failure, not with the
\* generic exception failure of the orchestrator boundary. Stated for the
\* runs of an ordinary query (the analysis says should_process and not toxic).
C4_UnparsedIntentIsLowConfidence ==
    (IntentUnparsed /\ analysis.should_process /\ ~analysis.is_toxic) =>
        /\ pc = "done"
        /\ boundary_exc = None
        /\ Val(response) =
                Failure(Msg("Low intent confidence"),
                        Msg("Could not understand your query. Please try rephrasing."))

\* C5: the retriever is invoked at most twice in a run; the second invocation
\* happens if and only if the first returned no matches and the plan's
\* filters were non-empty, and it has the same query and top_k and no
\* filters. No other stage is invoked twice.
C5_OneRetryOnly ==
    /\ Len(RetrieveCalls) <= 2
    /\ Len(RetrieveCalls) = 2 =>
            /\ RetrieveCalls[1].n = 0
            /\ DOMAIN RetrieveCalls[1].filters # {}
            /\ RetrieveCalls[1].filters = plan.metadata_filters
            /\ RetrieveCalls[2].query = RetrieveCalls[1].query
            /\ RetrieveCalls[2].top_k = RetrieveCalls[1].top_k
            /\ DOMAIN RetrieveCalls[2].filters = {}
    /\ (Len(RetrieveCalls) = 1 /\ pc # "retry") =>
            ~(RetrieveCalls[1].n = 0 /\ DOMAIN RetrieveCalls[1].filters # {})
    /\ pc = "retry" => Len(RetrieveCalls) = 1
    /\ \A st \in Stages(calls) \ {"retrieve"} : Count(st) = 1

C5_Witness ==
    /\ pc = "done"
    /\ Len(RetrieveCalls) = 2
    /\ RetrieveCalls[2].n > 0

\* retrieval is over (the retry included) and left no match
StillEmpty ==
    /\ Invoked("retrieve")
    /\ pc # "retry"
    /\ RetrieveCalls[Len(RetrieveCalls)].n = 0

\* C6: if the match list is still empty after the possible retry, the run
\* returns success=true with the no-matching-candidates message and invokes
\* neither aggregation, summarization, synthesis nor memory save.
C6_NoMatchesIsSuccess ==
    StillEmpty =>
        /\ pc = "done"
        /\ Val(response) = Success(Msg("No matching candidates found"))
        /\ Stages(calls) \cap {"aggregate", "summarize", "synthesize", "save_memory"} = {}

C6_Witness ==
    /\ StillEmpty
    /\ pc = "done"
    /\ Len(RetrieveCalls) = 2

\* the response of pipeline.py:229-235
FinalResponse ==
    [PipelineResponse EXCEPT
        !.success = TRUE, !.response = Some(answer), !.candidates = Some(candidates),
        !.sources = Some(Sources(results))]

\* C7: if the memory save of step 9 fails (the summarization LLM call raises,
\* the email is invalid, or the insert fails), the run returns the terminal
\* success response, with the response text, candidates and sources it
\* returns when the save succeeds.
C7_SaveFailureKeepsResponse ==
    (pc = "done" /\ save_outcome # "none") =>
        /\ save_outcome \in {"saved", "bad_email", "llm_raised", "insert_failed"}
        /\ Val(response) = FinalResponse
        /\ boundary_exc = None

C7_Witness ==
    /\ pc = "done"
    /\ save_outcome = "llm_raised"
    /\ "memory_summary" \in llm_raised

\* C8: whenever the plan's route is not process, the run terminates at step 4
\* and invokes neither the retriever nor any later stage.
C8_NonProcessRouteIsTerminal ==
    (Invoked("plan") /\ plan.route # "process") =>
        /\ pc = "done"
        /\ ~Val(response).success
        /\ calls[Len(calls)].stage = "plan"
        /\ Stages(calls) \cap {"retrieve", "aggregate", "summarize", "synthesize", "save_memory"} = {}

C8_Witness ==
    /\ pc = "done"
    /\ Invoked("plan")
    /\ plan.route = "reject"

\* C9: an exception raised by the LLM at any call site is caught inside the
\* component that made the call: no component's public function raises
\* because the LLM raised.
C9_LLMErrorsStayInside == escaped = {}

\* C10 as claimed: a run whose user query is empty or whitespace-only ends in
\* a terminal failure (success=false) with a user-facing message and without
\* retrieval, for every state of the stored memory.
C10_EmptyQueryFails ==
    (pc = "done" /\ Strip(inp.user_query) = <<>>) =>
        /\ ~Val(response).success
        /\ IsSome(Val(response).response)
        /\ ~Invoked("retrieve")

\* C10 as amended: a run whose user query is empty or whitespace-only and
\* that loaded no memory context ends at step 2 in a terminal success
\* (success=true) carrying the prompt-for-input message, without retry or
\* retrieval.
C10_EmptyQueryPrompts ==
    (Analyzed /\ Strip(inp.user_query) = <<>> /\ combined_query = inp.user_query) =>
        /\ pc = "done"
        /\ Val(response) = Success(Msg("Please provide a search query about candidates."))
        /\ Stages(calls) \subseteq {"load_memory", "analyze"}

C10_Witness ==
    /\ pc = "done"
    /\ Analyzed
    /\ inp.user_query = <<" ">>
    /\ inp.memory
    /\ combined_query = inp.user_query

----------------------------------------------------------------------------
(* Properties of the analyzer's result *)

\* the three conditions of the analysis result
HasImmediate(a) == IsSome(a.immediate_response)

ProcessWithQuery(a) == a.should_process /\ IsSome(a.modified_query)

IsToxic(a) == a.is_toxic

HowMany(a) ==
    (IF HasImmediate(a) THEN 1 ELSE 0) + (IF ProcessWithQuery(a) THEN 1 ELSE 0)
    + (IF IsToxic(a) THEN 1 ELSE 0)

\* C11 as claimed: every result of analyze satisfies exactly one of:
\* immediate_response is present; should_process is true with a
\* modified_query; is_toxic is true.
C11_ExactlyOneCondition == Analyzed => HowMany(analysis) = 1

\* C11 as amended: every result of analyze is of exactly one of three kinds:
\* an immediate response (should_process false, not toxic, no modified
\* query); a toxic result (no immediate response, should_process true exactly
\* when a modified_query is present); or an ordinary result (should_process
\* true, modified_query the query itself, not toxic, no immediate response).
\* A toxic query whose rewrite succeeded has is_toxic and should_process with
\* a modified_query at once.
C11_OneKindOfResult ==
    Analyzed =>
        LET a == analysis
            immediate == /\ HasImmediate(a) /\ ~a.should_process /\ ~a.is_toxic
                         /\ a.modified_query = None
            toxic == /\ a.is_toxic /\ ~HasImmediate(a)
                     /\ a.should_process = IsSome(a.modified_query)
            ordinary == /\ a.should_process /\ ~a.is_toxic /\ ~HasImmediate(a)
                        /\ a.modified_query = Some(combined_query)
        IN  /\ immediate \/ toxic \/ ordinary
            /\ ~(immediate /\ toxic) /\ ~(immediate /\ ordinary) /\ ~(toxic /\ ordinary)
            /\ HowMany(a) \in {1, 2}
            /\ HowMany(a) = 2 => (toxic /\ a.should_process)

C11_Witness ==
    /\ Analyzed
    /\ analysis.is_toxic
    /\ analysis.should_process
    /\ analysis.modified_query = Some(<<"fine">>)

----------------------------------------------------------------------------
(* Properties of the intent and of the plan *)

\* the dict intent_rating_tool returned in this run
IntentReturned == Invoked("intent") /\ ~intent_rating_raises(processed_query, intent_reply)

IntentDict == intent_rating_tool(processed_query, intent_reply)

\* C12: for every Intent returned by intent_rating_tool, on the "who is" path,
\* the parsed-LLM path and the fallback path alike, each field named in
\* requested_fields has a non-empty extracted value in that Intent (for
\* experience: at least one of min/max is not null).
C12_RequestedFieldsHaveValues ==
    IntentReturned =>
        \A i \in 1..Len(IntentDict.requested_fields) :
            FieldHasValue(IntentDict, IntentDict.requested_fields[i])

\* the planner ran on a non-toxic analysis
PlannedNonToxic == Invoked("plan") /\ ~analysis.is_toxic

\* the filter key a field of the intent contributes
KeyOfField(field) ==
    CASE field = "skills" -> "skills.technical"
      [] field = "experience" -> "experience_years"
      [] field = "roles" -> "current_role"
      [] OTHER -> field

SkillsOnly == intent_result.requested_fields = <<"skills">>

ClampedTopK(confidence) == Max(1, Min(20, 5 + (confidence \div 10)))

\* C14: for every non-toxic intent and every confidence value, the plan
\* returned by query_planner_tool has suggested_top_k equal to
\* 5 + floor(10 * confidence) clamped into [1, 20], and its route is process.
C14_TopKClamped ==
    PlannedNonToxic =>
        /\ plan.suggested_top_k = ClampedTopK(intent_result.confidence)
        /\ plan.route = "process"

----------------------------------------------------------------------------
(* Properties of the retriever *)

\* C15: retrieve never raises; when a step of its main path raises, it makes
\* exactly one direct vector-search call with no filters and limit top_k
\* after the over-fetching one, and returns that call's result, which may be
\* empty. When the main path does not raise there is no second search.
C15_RetrieveNeverRaises ==
    /\ \A i \in 1..Len(calls) :
        calls[i].stage = "retrieve" =>
            LET c == calls[i]
            IN  /\ c.searches[1] = IndexSearch(_process_filters(c.filters), 3 * c.top_k)
                /\ IF c.raised
                   THEN /\ Len(c.searches) = 2
                        /\ c.searches[2] = IndexSearch(EmptyDict, c.top_k)
                        /\ c.returned = Val(c.fallback)
                        /\ Len(c.returned) <= c.top_k
                   ELSE Len(c.searches) = 1
    /\ (calls # <<>> /\ calls[Len(calls)].stage = "retrieve") =>
            /\ boundary_exc = None
            /\ results = calls[Len(calls)].returned
            /\ pc \in {"retry", "aggregate", "done"}

C15_Witness ==
    /\ calls # <<>>
    /\ calls[Len(calls)].stage = "retrieve"
    /\ calls[Len(calls)].raised
    /\ calls[Len(calls)].returned # <<>>
    /\ DOMAIN calls[Len(calls)].filters # {}

\* the main path raised and the fallback search found nothing
C15_WitnessEmpty ==
    /\ calls # <<>>
    /\ calls[Len(calls)].stage = "retrieve"
    /\ calls[Len(calls)].raised
    /\ calls[Len(calls)].returned = <<>>

----------------------------------------------------------------------------
(* Properties of the aggregator *)

\* the candidate identity of an input result: the metadata id, else the
\* EMAIL, else the hash of the metadata
Identity(r) ==
    IF IsSome(r.meta_id) /\ Val(r.meta_id) # "" THEN <<"key", Val(r.meta_id)>>
    ELSE IF IsSome(r.EMAIL) /\ Val(r.EMAIL) # "" THEN <<"key", Val(r.EMAIL)>>
    ELSE <<"hash", Metadata(r)>>

RecordIdentity(c) ==
    IF c.candidate_id.key # "" THEN <<"key", c.candidate_id.key>>
    ELSE <<"hash", c.candidate_id.hashed>>

\* the inputs of process_results: the fresh matches, then the memory results
AggregatorInputs == results \o memory_results

NonBlank(r) == Strip(Val(r.text)) # <<>>

\* the fragments the inputs of an identity contribute, in input order
FragmentsOf(ident) ==
    LET mine == SelectSeq(AggregatorInputs, LAMBDA r : Identity(r) = ident /\ NonBlank(r))
    IN  [i \in 1..Len(mine) |-> [text |-> Val(mine[i].text), score |-> mine[i].score]]

ProcessResultsCalled == calls = <<Call("process_results")>>

\* C16: process_results returns exactly one CandidateRecord per distinct
\* candidate identity among its inputs; two inputs of the same identity end in
\* the same record, and every input with a non-blank text is exactly one
\* fragment of exactly the record of its identity.
C16_OneRecordPerIdentity ==
    ProcessResultsCalled =>
        /\ \A i, j \in 1..Len(candidates) :
                RecordIdentity(candidates[i]) = RecordIdentity(candidates[j]) => i = j
        /\ {RecordIdentity(candidates[i]) : i \in 1..Len(candidates)}
                = {Identity(AggregatorInputs[i]) : i \in 1..Len(AggregatorInputs)}
        /\ \A i \in 1..Len(candidates) :
                candidates[i].text_chunks = FragmentsOf(RecordIdentity(candidates[i]))

\* two fresh matches and a memory result of one identity, a third match of another
C16_Witness ==
    /\ ProcessResultsCalled
    /\ results = <<AggregatorHit(2), AggregatorHit(3), AggregatorHit(1)>>
    /\ memory_results = <<m1>>
    /\ Len(candidates) = 2
    /\ \E i \in 1..2 : Len(candidates[i].text_chunks) = 3

\* the aggregation entry point that was called on an empty match list
AggregatedEmpty ==
    /\ calls \in {<<Call("aggregate")>>, <<Call("aggregate_contexts")>>}
    /\ results = <<>>

\* C17: aggregating an empty match list returns the single "no matching
\* candidates" sentinel string, through ContextAggregator.aggregate and
\* through aggregate_contexts alike; neither returns an empty report or an
\* empty collection.
C17_EmptyGivesSentinel ==
    AggregatedEmpty =>
        /\ context = Msg("No matching candidates found.")
        /\ context # <<>>

----------------------------------------------------------------------------
(* Properties of the memory store and of toxic queries *)

IsPrefix(s, t) == Len(s) <= Len(t) /\ SubSeq(t, 1, Len(s)) = s

C18_WitnessEarly ==
    /\ pc = "done"
    /\ store_at_start # <<>>
    /\ store = store_at_start
    /\ ~Invoked("retrieve")

\* the analyzed query matches a toxicity rule and is neither empty nor
\* handled as a greeting or small talk
ToxicQuery ==
    /\ Analyzed
    /\ ToxicMatches(combined_query) # {}
    /\ Strip(combined_query) # <<>>
    /\ ~_is_greeting(combined_query) /\ ~_is_small_talk(combined_query)

\* C19: for every non-empty, non-greeting query that matches a toxicity rule,
\* analyze returns is_toxic=true, and should_process is true if and only if
\* the rewrite produced a query (the LLM call returned); when the rewrite
\* yields none because the LLM call fails, at any severity tier, should_process
\* is false, is_toxic is true and there is no modified_query.
C19_ToxicProcessedIffRewritten ==
    ToxicQuery =>
        /\ analysis.is_toxic
        /\ analysis.toxicity_level = Some(MaxLevel(ToxicMatches(combined_query)))
        /\ analysis.should_process = IsSome(analysis.modified_query)
        /\ analysis.should_process = ("rewrite" \notin llm_raised)
        /\ "rewrite" \in llm_raised => analysis.modified_query = None

C19_Witness ==
    /\ ToxicQuery
    /\ "rewrite" \in llm_raised
    /\ analysis.toxicity_level = Some(SEVERE)
    /\ ~analysis.should_process
    /\ analysis.is_toxic

\* C20: for every query that matches a toxicity rule and is not handled as
\* empty, greeting or small talk, the run never invokes the retriever,
\* whether or not the rewrite succeeded: it ends in a terminal failure at
\* step 2, 3 or 4.
C20_ToxicNeverRetrieves ==
    ToxicQuery =>
        /\ Stages(calls) \cap {"retrieve", "aggregate", "summarize", "synthesize",
                               "save_memory"} = {}
        /\ pc \in {"intent", "plan", "done"}
        /\ pc = "done" =>
                /\ ~Val(response).success
                /\ calls[Len(calls)].stage \in {"analyze", "intent", "plan"}
                /\ store = store_at_start

\* a toxic query whose rewrite succeeded, rejected by the planner at step 4
C20_Witness ==
    /\ ToxicQuery
    /\ pc = "done"
    /\ analysis.should_process
    /\ Invoked("plan")
    /\ plan.route = "reject"
    /\ Val(response).error = analysis.rejection_reason

----------------------------------------------------------------------------
(* Properties of the tools *)

\* the tool that was called and has returned a value
Returned(name) ==
    pc = "returned" /\ calls # <<>> /\ calls[1] = Call(name) /\ boundary_exc = None

\* the match's text or one of its languages contains the keyword
Qualifies(doc, keyword) ==
    \/ \E i \in 1..Len(doc.languages) : <<Lower(doc.languages[i])>> = keyword
    \/ keyword = <<>>
    \/ \E i \in 1..Len(Val(doc.text)) : \E j \in i..Len(Val(doc.text)) :
            LowerText(SubSeq(Val(doc.text), i, j)) = keyword

\* the output of the post-filter, as the statement describes it for a keyword
FilterOutputFor(keyword) ==
    LET qualifying == SelectSeq(inp.docs, LAMBDA d : Qualifies(d, keyword))
    IN  /\ results # <<>>
        /\ results = IF qualifying # <<>> THEN qualifying ELSE inp.docs

RerankCandidates == Reranked(inp.query, inp.top_k, inp.first)

\* the rerank_score of a candidate: the parsed answer, clamped to [0, 1], or
\* the retrieval score when the call raised or the answer did not parse
ExpectedRerank(doc) ==
    LET r == inp.replies[doc.id]
    IN  IF r.raised \/ r.score = None THEN doc.score
        ELSE IF Val(r.score) < 0 THEN 0
        ELSE IF Val(r.score) > 100 THEN 100 ELSE Val(r.score)

RetrieveReranked ==
    /\ Returned("retrieve")
    /\ ~RetrieveFallsBack(inp.query, inp.first, inp.top_k)

\* C22: with reranking enabled and an LLM available, retrieve returns the at
\* most top_k matches with the highest rerank_score among the first
\* 2 x top_k score-sorted candidates, in descending rerank_score order, with
\* one LLM call per candidate; a candidate whose answer raises or does not
\* parse gets its retrieval score as rerank_score, and no score field changes.
C22_RerankTopK ==
    RetrieveReranked =>
        /\ Len(results) = Min(inp.top_k, Len(RerankCandidates))
        /\ \A i \in 1..Len(results) :
                /\ \E j \in 1..Len(RerankCandidates) :
                        results[i] = [RerankCandidates[j] EXCEPT
                                        !.rerank_score =
                                            Some(ExpectedRerank(RerankCandidates[j]))]
                /\ \A j \in (i + 1)..Len(results) :
                        Val(results[i].rerank_score) >= Val(results[j].rerank_score)
        /\ \A j \in 1..Len(RerankCandidates) :
                \/ \E i \in 1..Len(results) : results[i].id = RerankCandidates[j].id
                \/ ExpectedRerank(RerankCandidates[j])
                        <= Val(results[Len(results)].rerank_score)
        /\ Len(calls) = 1 + Len(RerankCandidates)
        /\ \A j \in 1..Len(RerankCandidates) :
                calls[j + 1].stage = "llm.invoke"
                /\ calls[j + 1].query = <<RerankCandidates[j].id>>

\* three candidates, two of them reranked, the lower-scored one returned: its
\* answer parsed to 0.95 while the other's call gave 0.1
C22_Witness ==
    /\ RetrieveReranked
    /\ inp.top_k = 1
    /\ Len(inp.first.hits) = 3
    /\ Len(RerankCandidates) = 2
    /\ RerankCandidates[1].id = "c1"
    /\ Len(results) = 1
    /\ results[1].id = "c2"
    /\ results[1].rerank_score = Some(95)
    /\ results[1].score = 50

\* the duration string of the scored job without its blanks
DurationWords == SelectSeq(inp.job.DURATION, LAMBDA t : ~IsSpace(t))

\* what the statement says parse_duration returns for the accepted shapes
\* "YYYY - present", "YYYY - YYYY" and "MM/YYYY - MM/YYYY", and none otherwise
StatedDuration ==
    LET t == DurationWords
    IN  IF Len(t) # 3 \/ t[2] # "-" THEN None
        ELSE IF IsSome(IntOf(<<t[1]>>)) /\ Lower(t[3]) = "present"
            THEN Some(<<Val(IntOf(<<t[1]>>)), CurrentYear>>)
        ELSE IF IsSome(IntOf(<<t[1]>>)) /\ IsSome(IntOf(<<t[3]>>))
            THEN Some(<<Val(IntOf(<<t[1]>>)), Val(IntOf(<<t[3]>>))>>)
        ELSE IF IsSome(SlashYear(<<t[1]>>)) /\ IsSome(SlashYear(<<t[3]>>))
            THEN Some(<<Val(SlashYear(<<t[1]>>)), Val(SlashYear(<<t[3]>>))>>)
        ELSE None

\* C23: parse_duration returns (start, currentYear) for "YYYY - present",
\* (start, end) for "YYYY - YYYY" and (startYear, endYear) for
\* "MM/YYYY - MM/YYYY"; for every other shape and on any parse error it
\* returns none without raising, and the entry then scores 0.
C23_DurationShapes ==
    Returned("calculate_position_score") =>
        /\ results.duration = StatedDuration
        /\ StatedDuration = None => results.score = 0

\* the weight of the first keyword of the stated priority order (principal,
\* lead, senior, manager, mid, engineer/developer, entry, junior, intern) that
\* occurs in the title, and 1.0 when none occurs, in tenths
StatedSeniority ==
    LET order == << <<"principal", 15>>, <<"lead", 14>>, <<"senior", 13>>,
                    <<"manager", 13>>, <<"mid", 11>>, <<"engineer", 10>>,
                    <<"developer", 10>>, <<"entry", 8>>, <<"junior", 9>>,
                    <<"intern", 6>> >>
        found == {i \in 1..Len(order) : OccursIn(order[i][1], inp.job.TITLE)}
    IN  IF found = {} THEN 10
        ELSE order[CHOOSE i \in found : \A j \in found : i <= j][2]

\* C24: for every job title, the seniority multiplier is the weight of the
\* first keyword, in the priority order principal, lead, senior, manager, mid,
\* engineer/developer, entry, junior, intern, that occurs in the lower-cased
\* title, and 1.0 when no keyword occurs, also for titles with several
\* keywords.
C24_SeniorityByPriority ==
    (Returned("calculate_position_score") /\ results.duration # None) =>
        results.seniority = StatedSeniority

----------------------------------------------------------------------------
(* Properties of the synthesizer *)

\* the positions of top_chunks that batch number k holds
BatchPositions(k) ==
    {p \in 1..Len(inp.top_chunks) :
        (k - 1) * inp.batch_size < p /\ p <= k * inp.batch_size}

\* the collaborator's batch invoke was called for batch k and raised
BatchInvokeFailed(k) ==
    /\ BatchPositions(k) # {}
    /\ inp.llm.has_batch
    /\ k \in inp.llm.batch_fails
    /\ \A p \in BatchPositions(k) : inp.top_chunks[p].id \notin inp.llm.unserializable

\* a single LLM call was made for the match of this id
AskedAlone(ident) ==
    \E i \in 2..Len(calls) : calls[i].stage = "llm.invoke" /\ calls[i].query = <<ident>>

Placeholders ==
    {Msg("Summary not available"), Msg("Summary not available due to processing error")}

\* C26: when the collaborator's batch invoke fails for a batch, one individual
\* LLM call is made for each candidate of that batch, a candidate gets the
\* placeholder summary only if its individual call fails too, and the later
\* batches are still processed.
C26_BatchFailureFallsBack ==
    Returned("synthesizer_tool") =>
        /\ Len(results) = Len(inp.top_chunks)
        /\ \A k \in 1..Len(inp.top_chunks) :
            BatchInvokeFailed(k) =>
                \A p \in BatchPositions(k) :
                    LET ident == inp.top_chunks[p].id
                    IN  /\ AskedAlone(ident)
                        /\ \A i \in 1..Len(results) :
                            (results[i].name = ident /\ results[i].summary \in Placeholders)
                                => ident \in inp.llm.invoke_fails

\* the retrieval score of the match an entry was built from
MatchScore(entry) ==
    LET p == CHOOSE q \in 1..Len(inp.top_chunks) : inp.top_chunks[q].id = entry.name
    IN  inp.top_chunks[p].score

\* C27: the list synthesizer_tool returns is ordered by descending retrieval
\* score of the input matches, whatever the order of the input list: of two
\* entries, the one built from the match of the higher score comes first.
C27_OrderedByMatchScore ==
    Returned("synthesizer_tool") =>
        \A i, j \in 1..Len(results) :
            MatchScore(results[i]) > MatchScore(results[j]) => i < j

----------------------------------------------------------------------------
(* Properties of format_chunks over its worker pool *)

\* the fragments of the submitted chunks, in the order of that list, without
\* the chunks whose formatting fails
FragmentsInOrder ==
    LET made == [p \in 1..Len(results.chunks) |->
                    <<p, _format_single_chunk(results.chunks[p], p, inp.no_metadata)>>]
        kept == SelectSeq(made, LAMBDA m : m[2] # None)
    IN  [i \in 1..Len(kept) |-> <<kept[i][1], Val(kept[i][2])>>]

\* C28: for every order in which the worker pool's formatting tasks complete,
\* format_chunks joins the formatted fragments in the order of its
\* score-sorted and max_chunks-truncated input list; a fragment whose
\* formatting fails is omitted without moving the others.
C28_OutputInInputOrder ==
    pc = "formatted" =>
        /\ results.chunks = Take(SortDesc(inp.chunks, Scores(inp.chunks)), inp.max_chunks)
        /\ context = JoinChunks(FragmentsInOrder)

\* three chunks whose futures were yielded last-first, the middle one failing
C28_Witness ==
    /\ pc = "formatted"
    /\ Len(results.chunks) = 3
    /\ results.yielded = <<3, 2, 1>>
    /\ results.chunks[2].id \in inp.no_metadata
    /\ Len(results.formatted_chunks) = 2
    /\ inp.chunks # results.chunks

----------------------------------------------------------------------------
(* Properties of the report of a pipeline run *)

\* the block of a profile that a field gates, by the line that opens it
BlockOf(field) ==
    CASE field = "contact" -> "[email]"
      [] field = "experience" -> "### Professional Experience"
      [] field = "excerpts" -> "### Relevant Experience Highlights"

\* C29: in a pipeline run whose plan carries a non-empty requested_fields,
\* the aggregated report is gated by those fields: a profile block (contact,
\* location, experience, skills, excerpts) is rendered only if its field was
\* requested.
C29_ReportGatedByPlan ==
    (pc = "summarize" /\ plan.requested_fields # <<>>) =>
        \A field \in {"contact", "experience", "excerpts"} :
            InSeq(BlockOf(field), context)
                => InSeq(field, LowerAll(plan.requested_fields))

----------------------------------------------------------------------------
(* Properties of the session store *)

\* every call has returned
AllReturned ==
    /\ store._memory_lock = None
    /\ \A t \in Threads : pc[t] = "idle"

\* the adds to a session, in the order they took the lock
AddsTo(session_id) == SelectSeq(calls, LAMBDA c : c.session_id = session_id)

\* the dicts of a session's list in the store
StoredDicts(session_id) ==
    IF session_id \in DOMAIN store._memory_store
    THEN store.lists[store._memory_store[session_id]] ELSE <<>>

\* a list get_memory returned still has the entries it was returned with
\* while no caller has changed it
SnapshotsKept ==
    \A t \in Threads :
        pc[t] = "returned" => store.lists[Val(results[t]).list] = Val(results[t]).seen

\* C30 as stated: for every interleaving of concurrent add_message and
\* get_memory calls, once all calls have returned each session's list holds
\* every message added to that session exactly once, in the order the adds
\* took the lock, and a list returned by get_memory is a snapshot that later
\* adds, and mutations by the caller, do not change in the store.
C30_StoreHoldsEveryMessage ==
    /\ SnapshotsKept
    /\ AllReturned =>
        \A s \in SessionIds :
            /\ Len(StoredDicts(s)) = Len(AddsTo(s))
            /\ \A i \in 1..Len(StoredDicts(s)) :
                store.dicts[StoredDicts(s)[i]].message = AddsTo(s)[i].message

\* C30, amended: once all calls have returned each session's list holds one
\* dict for every add to that session, each a different dict, in the order
\* the adds took the lock, with the message as added unless a caller has
\* assigned to it through a returned list; a returned list keeps its entries
\* under later adds, and a caller removing entries from it does not change
\* the store's list.
C30_OneDictPerAdd ==
    /\ SnapshotsKept
    /\ AllReturned =>
        \A s \in SessionIds :
            /\ Len(StoredDicts(s)) = Len(AddsTo(s))
            /\ \A i, j \in 1..Len(StoredDicts(s)) :
                StoredDicts(s)[i] = StoredDicts(s)[j] => i = j
            /\ \A i \in 1..Len(StoredDicts(s)) :
                store.dicts[StoredDicts(s)[i]].message
                    \in {AddsTo(s)[i].message, <<"edited">>}

\* both threads have added to one session; one thread holds a list that was
\* returned before the other's add and another list has lost an entry to
\* its caller, while the store's list has both messages
C30_Witness ==
    /\ store._memory_lock = None
    /\ Len(AddsTo("s1")) = 2
    /\ AddsTo("s1")[1].message[1] # AddsTo("s1")[2].message[1]
    /\ Len(StoredDicts("s1")) = 2
    /\ \E t \in Threads :
        /\ pc[t] = "returned"
        /\ Len(Val(results[t]).seen) = 1
    /\ \E u \in Threads :
        /\ pc[u] = "idle"
        /\ results[u] # None
        /\ store.lists[Val(results[u]).list] # Val(results[u]).seen

----------------------------------------------------------------------------
(* Properties of the aggregator with a memory collaborator *)

\* the first fresh match of an identity
FirstFresh(ident) ==
    results[CHOOSE a \in 1..Len(results) :
                /\ Identity(results[a]) = ident
                /\ \A b \in 1..(a - 1) : Identity(results[b]) # ident]

Fragment(r) == [text |-> Val(r.text), score |-> r.score]

\* C25: when a memory collaborator is configured, a memory-sourced entry of
\* the same candidate identity as a fresh match leaves that record's metadata
\* and experience score as computed from the fresh match, and the memory
\* entry's text is added to the same record's fragments alongside the fresh
\* fragments.
C25_MemoryNeverOverwrites ==
    ProcessResultsCalled =>
        \A j \in 1..Len(memory_results) : \A i \in 1..Len(results) :
            Identity(memory_results[j]) = Identity(results[i]) =>
                \E k \in 1..Len(candidates) :
                    LET c == candidates[k]
                        fresh == FirstFresh(Identity(results[i]))
                    IN  /\ RecordIdentity(c) = Identity(results[i])
                        /\ c.metadata = Metadata(fresh)
                        /\ c.score = score_candidate(fresh.experience)
                        /\ NonBlank(memory_results[j]) =>
                                \E n \in 1..Len(c.text_chunks) :
                                    c.text_chunks[n] = Fragment(memory_results[j])
                        /\ NonBlank(results[i]) =>
                                \E n \in 1..Len(c.text_chunks) :
                                    c.text_chunks[n] = Fragment(results[i])

\* a fresh match with a job and a memory result of its identity: one record
\* with the fresh metadata and score and both texts
C25_Witness ==
    /\ ProcessResultsCalled
    /\ results = <<AggregatorHit(5)>>
    /\ memory_results = <<m1>>
    /\ Len(candidates) = 1
    /\ candidates[1].metadata = Metadata(AggregatorHit(5))
    /\ candidates[1].score = 200
    /\ candidates[1].text_chunks = <<Fragment(AggregatorHit(5)), Fragment(m1)>>

====
